---- MODULE Spec2Model ----
(***************************************************************************)
(* Model of the in-memory vector store of cpp_server: VectorDB (store,     *)
(* search, dot_product), the hash-based embedder, the request handlers of   *)
(* Server that drive them, and the accept loop of Server::run with the     *)
(* framing of its connections.                                             *)
(*                                                                         *)
(* Numbers: a float is modelled in fixed point, 1.0f = Scale.  A vector    *)
(* std::vector<float> is the record [len, nz]: len is its size() and nz    *)
(* maps the indices of its non-zero components to their values (all other  *)
(* components are 0.0f, and adding 0.0f * x to a float sum is exact, so    *)
(* dot_product may skip them).                                             *)
(***************************************************************************)
EXTENDS Integers, Sequences, FiniteSets, TLC

VARIABLES
  entries_,     \* VectorDB::entries_: chunk_id -> VectorEntry
  doc_index_,   \* VectorDB::doc_index_: doc_id -> sequence of chunk_ids
  hash_,        \* the std::hash<std::string> of the build
  op,           \* the last call: its kind, its arguments, what it found
  results,      \* what the last call of search returned
  response,     \* the response to the last request
  ever_stored,  \* the chunk_ids passed to store so far
  pc,           \* where the process is: Idle, Listening, Accepting, Handling,
                \* ShuttingDown, Stopped
  shutdown_requested,  \* Server::shutdown_requested
  listen_fd_,   \* Server::listen_fd_
  exit_code,    \* what main returned, "none" while the process runs
  conns,        \* the descriptors accept returned that are still open
  client_fd,    \* run's local client_fd, -1 outside handle_connection
  frame,        \* what the peer of the connection in hand sends
  rd,           \* read_message's position and locals, the errno of a
                \* read that failed, and (after) the error that ended the
                \* connection before this one
  writes,       \* the calls of write_message for the last accepted connection
  acked,        \* chunk_id -> doc_id and text of its last store answered ok
  sockets,      \* the sockets setup_socket created that the process has not
                \* closed
  startup,      \* the arguments main was given and how setup_socket ended
  wr,           \* write_message's position and locals
  wire          \* the bytes written to a connection and not yet read

db_vars == <<entries_, doc_index_, hash_, op, results, response, ever_stored>>

server_vars ==
  <<pc, shutdown_requested, listen_fd_, exit_code, conns, client_fd, frame, rd,
    writes, acked, sockets, startup, wr, wire>>

vars == <<db_vars, server_vars>>

-----------------------------------------------------------------------------
(* Bounds and program constants *)

\* embedder.hpp: constexpr size_t EMBED_DIM = 4096
EMBED_DIM == 4096

\* fixed-point unit: the value 1.0f
Scale == 1000

\* the largest top_k of the modelled search calls
MaxTopK == 3

\* default of top_k in handle_search
DefaultTopK == 5

DocIds == {"d1", "d2", "d3"}

\* doc_id_filter: "" means "no filter"
Filters == DocIds \cup {""}

-----------------------------------------------------------------------------
(* Generic helpers *)

Min(a, b) == IF a < b THEN a ELSE b

Max(a, b) == IF a > b THEN a ELSE b

Range(s) == {s[i] : i \in DOMAIN s}

RemoveKey(f, k) == [x \in (DOMAIN f) \ {k} |-> f[x]]

PutKey(f, k, v) == [x \in (DOMAIN f) \cup {k} |-> IF x = k THEN v ELSE f[x]]

RECURSIVE SumOver(_, _)
SumOver(S, f) ==
  IF S = {} THEN 0
  ELSE LET x == CHOOSE y \in S : TRUE IN f[x] + SumOver(S \ {x}, f)

Perms(n) == {p \in [1..n -> 1..n] : \A i, j \in 1..n : i # j => p[i] # p[j]}

-----------------------------------------------------------------------------
(* Fixed-point float arithmetic *)

\* a * b, rounded to nearest
FMul(a, b) == (2 * a * b + Scale) \div (2 * Scale)

\* a / b, rounded to nearest (b > 0)
FDiv(a, b) == (2 * a * Scale + b) \div (2 * b)

RECURSIVE ISqrt(_, _, _)
ISqrt(x, lo, hi) ==
  IF lo >= hi THEN lo
  ELSE LET mid == (lo + hi + 1) \div 2
       IN IF mid * mid <= x THEN ISqrt(x, mid, hi) ELSE ISqrt(x, lo, mid - 1)

\* std::sqrt of a fixed-point value
FSqrt(x) == ISqrt(x * Scale, 0, Min(x * Scale, 40000))

-----------------------------------------------------------------------------
(* Vectors *)

ZeroVec(n) == [len |-> n, nz |-> <<>>]

At(v, i) == IF i \in DOMAIN v.nz THEN v.nz[i] ELSE 0

\* vec[h] += x
VecAdd(v, h, x) ==
  LET y == At(v, h) + x
  IN [len |-> v.len, nz |-> IF y = 0 THEN RemoveKey(v.nz, h) ELSE PutKey(v.nz, h, y)]

\* faulty variant: the components of a are summed, the products not formed
dot_product_sum(a, b) ==
  LET n == Min(a.len, b.len)
      I == {i \in (DOMAIN a.nz) \cap (DOMAIN b.nz) : i < n}
  IN SumOver(I, [i \in I |-> a.nz[i]])

\* VectorDB::dot_product
dot_product(a, b) ==
  LET n == Min(a.len, b.len)
      I == {i \in (DOMAIN a.nz) \cap (DOMAIN b.nz) : i < n}
  IN SumOver(I, [i \in I |-> FMul(a.nz[i], b.nz[i])])


-----------------------------------------------------------------------------
(* Embedder *)

\* the characters of the modelled texts that std::isalnum accepts
Alnum == {"A", "a", "b", "c", "d", "e", "1"}

\* std::isalnum
isalnum(c) == c \in Alnum

\* std::tolower
tolower(c) == IF c = "A" THEN "a" ELSE c

\* the modelled texts, and the characters of each
T_ab_c == "Ab c"

T_d == "d"

T_ab_e == "ab-e"

T_none == "- "

Texts == {T_ab_c, T_d, T_ab_e, T_none, ""}

Chars(text) ==
  CASE text = T_ab_c -> <<"A", "b", " ", "c">>
    [] text = T_d -> <<"d">>
    [] text = T_ab_e -> <<"a", "b", "-", "e">>
    [] text = T_none -> <<"-", " ">>
    [] OTHER -> <<>>

\* the tokenizer of embed: the lower-cased alphanumeric runs of text, in order
RECURSIVE tokens_loop(_, _, _, _)
tokens_loop(text, i, token, acc) ==
  IF i > Len(text) THEN (IF token # <<>> THEN Append(acc, token) ELSE acc)
  ELSE IF isalnum(text[i])
       THEN tokens_loop(text, i + 1, Append(token, tolower(text[i])), acc)
       ELSE IF token # <<>> THEN tokens_loop(text, i + 1, <<>>, Append(acc, token))
            ELSE tokens_loop(text, i + 1, <<>>, acc)

Tokens(text) == tokens_loop(Chars(text), 1, <<>>, <<>>)

TokenSet == UNION {Range(Tokens(t)) : t \in Texts}

\* std::hash<std::string> is implementation-defined: the build fixes one of
\* these.  HashPlain separates all tokens; HashDE sends "d" and "e" to the
\* same bucket modulo EMBED_DIM.
HashPlain ==
  [t \in TokenSet |->
     CASE t = <<"a", "b">> -> 35
       [] t = <<"c">> -> 19
       [] t = <<"d">> -> 20
       [] OTHER -> 21]

HashDE == [t \in TokenSet |-> IF t = <<"e">> THEN HashPlain[<<"d">>] + 3 * EMBED_DIM ELSE HashPlain[t]]

HashFns == {HashPlain, HashDE}

\* the accumulation loops of embed: vec[hash(token) % EMBED_DIM] += 1.0f
RECURSIVE embed_count(_, _, _)
embed_count(toks, i, vec) ==
  IF i > Len(toks) THEN vec
  ELSE embed_count(toks, i + 1, VecAdd(vec, hash_[toks[i]] % EMBED_DIM, Scale))

\* faulty variant: the counts are returned as they are
normalize_skip(vec) == vec

\* how many divisions `v /= norm` the normalisation of vec performs: one for
\* each component when norm > 0.0f, none otherwise
normalize_divisions(vec) ==
  LET I == DOMAIN vec.nz
      norm == SumOver(I, [i \in I |-> FMul(vec.nz[i], vec.nz[i])])
  IN IF norm > 0 THEN vec.len ELSE 0

\* the L2 normalisation of embed
normalize(vec) ==
  LET I == DOMAIN vec.nz
      norm == SumOver(I, [i \in I |-> FMul(vec.nz[i], vec.nz[i])])
  IN IF norm > 0
     THEN [len |-> vec.len, nz |-> [i \in I |-> FDiv(vec.nz[i], FSqrt(norm))]]
     ELSE vec

\* faulty variant: the vector is one component short
embed_short(text) ==
  normalize(embed_count(Tokens(text), 1, ZeroVec(EMBED_DIM - 1)))

\* embed
embed(text) == normalize(embed_count(Tokens(text), 1, ZeroVec(EMBED_DIM)))


-----------------------------------------------------------------------------
(* VectorDB *)

\* the vectors handed to VectorDB directly; the store does not check lengths
V_short == [len |-> 2, nz |-> (0 :> Scale) @@ (1 :> 2 * Scale)]

V_neg == [len |-> 3, nz |-> (1 :> Scale) @@ (2 :> 0 - Scale)]

VectorEntry(c, d, t, m, e) ==
  [chunk_id |-> c, doc_id |-> d, text |-> t, metadata |-> m, embedding |-> e]

\* faulty variant: the map is replaced by one holding the new entry alone
store_entries_alone(ents, c, d, t, m, e) ==
  [x \in {c} |-> VectorEntry(c, d, t, m, e)]

\* faulty variant: an existing entry is kept (insert instead of assignment)
store_entries_keep(ents, c, d, t, m, e) ==
  IF c \in DOMAIN ents THEN ents ELSE PutKey(ents, c, VectorEntry(c, d, t, m, e))

\* the entry map after store: entries_[chunk_id] = VectorEntry{...}
store_entries(ents, c, d, t, m, e) == PutKey(ents, c, VectorEntry(c, d, t, m, e))

\* doc_index_[d]: operator[] inserts an empty bucket when d has none
bucket_ref(idx, d) == IF d \in DOMAIN idx THEN idx ELSE PutKey(idx, d, <<>>)

\* the std::remove / erase idiom on a bucket
erase_remove(ids, c) == SelectSeq(ids, LAMBDA x : x # c)

\* faulty variant: the old listing is not removed
index_unlink_stale(idx, ents, c) == idx

\* faulty variant: an emptied bucket is not erased
index_unlink_noprune(idx, ents, c) ==
  IF c \in DOMAIN ents
  THEN LET old_doc_id == ents[c].doc_id
           idx0 == bucket_ref(idx, old_doc_id)
       IN [idx0 EXCEPT ![old_doc_id] = erase_remove(idx0[old_doc_id], c)]
  ELSE idx

\* faulty variant: the whole old bucket is erased
index_unlink_drop(idx, ents, c) ==
  IF c \in DOMAIN ents THEN RemoveKey(idx, ents[c].doc_id) ELSE idx

\* the doc index after the "if overwriting" block of store
index_unlink(idx, ents, c) ==
  IF c \in DOMAIN ents
  THEN LET old_doc_id == ents[c].doc_id
           idx0 == bucket_ref(idx, old_doc_id)
           ids == erase_remove(idx0[old_doc_id], c)
       IN IF ids = <<>> THEN RemoveKey(idx0, old_doc_id)
          ELSE [idx0 EXCEPT ![old_doc_id] = ids]
  ELSE idx

\* doc_index_[doc_id].push_back(chunk_id)
index_link(idx, c, d) ==
  LET idx0 == bucket_ref(idx, d) IN [idx0 EXCEPT ![d] = Append(idx0[d], c)]

\* faulty variant: the old listing is removed only when the doc_id changes
store_index_dup(idx, ents, c, d) ==
  IF c \in DOMAIN ents /\ ents[c].doc_id = d
  THEN index_link(idx, c, d)
  ELSE index_link(index_unlink(idx, ents, c), c, d)

\* the doc index after store
store_index(idx, ents, c, d) == index_link(index_unlink(idx, ents, c), c, d)


\* one element of `scored`: the score and the entry pointed to
ScoredItem(ents, q, cid) ==
  [first |-> dot_product(q, ents[cid].embedding), second |-> cid]

\* faulty variant: only the first chunk_id of the bucket is scanned
scan_bucket_short(ents, q, ids, i) ==
  IF i > Len(ids) \/ ids[i] \notin DOMAIN ents THEN <<>>
  ELSE <<ScoredItem(ents, q, ids[i])>>

RECURSIVE scan_bucket(_, _, _, _)
\* the filtered scan: the bucket of doc_id_filter in bucket order, skipping
\* chunk_ids without an entry
scan_bucket(ents, q, ids, i) ==
  IF i > Len(ids) THEN <<>>
  ELSE IF ids[i] \in DOMAIN ents
       THEN <<ScoredItem(ents, q, ids[i])>> \o scan_bucket(ents, q, ids, i + 1)
       ELSE scan_bucket(ents, q, ids, i + 1)

\* the unfiltered scan: unordered_map iterates in an unspecified order
scan_all(ents, q) ==
  LET n == Cardinality(DOMAIN ents)
  IN {[i \in 1..n |-> ScoredItem(ents, q, ord[i])] :
        ord \in {o \in [1..n -> DOMAIN ents] : \A i, j \in 1..n : i # j => o[i] # o[j]}}

\* faulty variant: the filter is ignored
scan_nofilter(ents, idx, q, doc_id_filter) == scan_all(ents, q)

\* `scored` before the sort: the sequences the scan can produce
scan(ents, idx, q, doc_id_filter) ==
  IF doc_id_filter # ""
  THEN IF doc_id_filter \in DOMAIN idx
       THEN {scan_bucket(ents, q, idx[doc_id_filter], 1)}
       ELSE {<<>>}
  ELSE scan_all(ents, q)

\* faulty variant: the comparator is a.first < b.first
sort_asc(scored) ==
  LET n == Len(scored)
  IN {[i \in 1..n |-> scored[p[i]]] :
        p \in {r \in Perms(n) : \A i, j \in 1..n : i < j => scored[r[i]].first <= scored[r[j]].first}}

\* std::sort with a.first > b.first: some permutation of scored in which no
\* element precedes one with a greater score; equal scores land in any order
sort_desc(scored) ==
  LET n == Len(scored)
  IN {[i \in 1..n |-> scored[p[i]]] :
        p \in {r \in Perms(n) : \A i, j \in 1..n : i < j => scored[r[i]].first >= scored[r[j]].first}}

\* one element of the result list, from the four initialisers search gives
\* push_back (vector_db.cpp 58-63)
MakeResult(ents, item) ==
  [chunk_id |-> ents[item.second].chunk_id,
   score |-> item.first,
   text |-> ents[item.second].text,
   metadata |-> ents[item.second].metadata]

\* faulty variant: top_k is compared as an unsigned size
take_top_k_unsigned(ents, scored, top_k) ==
  LET count == IF top_k < 0 THEN Len(scored) ELSE Min(top_k, Len(scored))
  IN [i \in 1..count |-> MakeResult(ents, scored[i])]

\* the "take top_k" loop: count = min(top_k, scored.size())
take_top_k(ents, scored, top_k) ==
  LET count == Min(top_k, Len(scored))
  IN [i \in 1..count |-> MakeResult(ents, scored[i])]

\* VectorDB::search: the result lists a call can return
search(ents, idx, q, top_k, doc_id_filter) ==
  UNION {{take_top_k(ents, sorted, top_k) : sorted \in sort_desc(scored)} :
           scored \in scan(ents, idx, q, doc_id_filter)}

-----------------------------------------------------------------------------
(* The VectorDB interface: store and search called with arbitrary arguments *)

\* (text, metadata, embedding) of the modelled store calls: two texts with
\* their embeddings, and one call whose embedding has another length
P_ab_c == <<T_ab_c, "{}", embed(T_ab_c)>>

P_d == <<T_d, "{p:1}", embed(T_d)>>

P_short == <<T_none, "{}", V_short>>

\* the (chunk_id, doc_id, payload) triples of the modelled store calls
StoreCalls ==
  ({"c1", "c2"} \X {"d1", "d2"} \X {P_ab_c, P_d})
    \cup ({"c3"} \X {"d2", "d3"} \X {P_d, P_short})

Queries == {embed(T_ab_e), V_neg}

TopKs == {0 - 1, 0, 1, MaxTopK}

NoOp == [kind |-> "none"]

\* found and old_doc_id are store's locals `it != entries_.end()` and
\* old_doc_id
StoreOp(c, d, t, m, e) ==
  [kind |-> "store", chunk_id |-> c, doc_id |-> d, text |-> t, metadata |-> m,
   embedding |-> e, found |-> c \in DOMAIN entries_,
   old_doc_id |-> IF c \in DOMAIN entries_ THEN entries_[c].doc_id ELSE ""]

SearchOp(q, k, f) ==
  [kind |-> "search", query_embedding |-> q, top_k |-> k, doc_id_filter |-> f]

NoResponse == [status |-> "none", message |-> "", has_results |-> FALSE, results |-> <<>>]

\* no connection: nothing to read
NoFrame == [len_buf |-> <<>>, msg |-> [json |-> FALSE, value |-> <<>>]]

\* read_message has not been called
NoRead ==
  [phase |-> "none", total |-> 0, length |-> 0, partial |-> 0, error |-> "",
   errno |-> "", after |-> ""]

\* write_message has not been called
NoWrite == [phase |-> "none", total |-> 0, partial |-> 0]

\* no connection: nothing in flight
NoWire == [hdr |-> <<>>, body |-> <<>>, closed |-> FALSE]

\* no arguments taken yet, setup_socket not called
NotStarted == [argv |-> <<>>, setup |-> "none"]

\* the process before main runs
InitServer ==
  /\ pc = "Idle"
  /\ shutdown_requested = FALSE
  /\ listen_fd_ = 0 - 1
  /\ exit_code = "none"
  /\ conns = {}
  /\ client_fd = 0 - 1
  /\ frame = NoFrame
  /\ rd = NoRead
  /\ writes = <<>>
  /\ acked = <<>>
  /\ sockets = {}
  /\ startup = NotStarted
  /\ wr = NoWrite
  /\ wire = NoWire

Init ==
  /\ entries_ = <<>>
  /\ doc_index_ = <<>>
  /\ hash_ \in HashFns
  /\ op = NoOp
  /\ results = <<>>
  /\ response = NoResponse
  /\ ever_stored = {}
  /\ InitServer

Store(c, d, t, m, e) ==
  /\ entries_' = store_entries(entries_, c, d, t, m, e)
  /\ doc_index_' = store_index(doc_index_, entries_, c, d)
  /\ op' = StoreOp(c, d, t, m, e)
  /\ results' = <<>>
  /\ ever_stored' = ever_stored \cup {c}
  /\ UNCHANGED <<hash_, response>>
  /\ UNCHANGED server_vars

Search(q, k, f) ==
  /\ results' \in search(entries_, doc_index_, q, k, f)
  /\ op' = SearchOp(q, k, f)
  /\ UNCHANGED <<entries_, doc_index_, hash_, response, ever_stored>>
  /\ UNCHANGED server_vars

Next ==
  \/ \E sc \in StoreCalls : Store(sc[1], sc[2], sc[3][1], sc[3][2], sc[3][3])
  \/ \E q \in Queries, k \in TopKs, f \in Filters : Search(q, k, f)

Spec == Init /\ [][Next]_vars


-----------------------------------------------------------------------------
(* Properties of VectorDB, checked under Spec *)

\* how often chunk_id c is listed in the sequence ids
Occurrences(ids, c) == Cardinality({i \in DOMAIN ids : ids[i] = c})

\* the chunk_ids a bucket lists
Members(idx) == [d \in DOMAIN idx |-> Range(idx[d])]

ResultIds == {results[i].chunk_id : i \in DOMAIN results}

\* C1: every chunk_id the doc index lists under a doc_id d has an entry in the
\* entry map, and that entry's doc_id is d.
C1_IndexedChunksHaveEntry ==
  \A d \in DOMAIN doc_index_ :
    \A i \in DOMAIN doc_index_[d] :
      /\ doc_index_[d][i] \in DOMAIN entries_
      /\ entries_[doc_index_[d][i]].doc_id = d

\* a store has moved a chunk to another doc_id, out of a bucket that still
\* lists another chunk
C1_Witness ==
  /\ op.kind = "store"
  /\ op.found
  /\ op.old_doc_id # op.doc_id
  /\ op.old_doc_id \in DOMAIN doc_index_

\* C2: every stored entry's chunk_id is listed exactly once in the bucket of
\* the entry's doc_id and in no other bucket.
C2_ListedExactlyOnce ==
  \A c \in DOMAIN entries_ :
    /\ entries_[c].doc_id \in DOMAIN doc_index_
    /\ Occurrences(doc_index_[entries_[c].doc_id], c) = 1
    /\ \A d \in DOMAIN doc_index_ :
         d # entries_[c].doc_id => Occurrences(doc_index_[d], c) = 0

\* a chunk_id stored again under the doc_id it already had
C2_Witness ==
  /\ op.kind = "store"
  /\ op.found
  /\ op.old_doc_id = op.doc_id
  /\ Len(doc_index_[op.doc_id]) = 2

\* C3: no bucket of the doc index is empty; a store that moves the last
\* chunk_id out of a bucket removes the bucket.
C3_NoEmptyBucket ==
  /\ \A d \in DOMAIN doc_index_ : doc_index_[d] # <<>>
  /\ (op.kind = "store" /\ op.found /\ op.old_doc_id # op.doc_id
        /\ \A c \in DOMAIN entries_ : entries_[c].doc_id # op.old_doc_id)
     => op.old_doc_id \notin DOMAIN doc_index_

\* a store has moved the last chunk_id out of a bucket
C3_Witness ==
  /\ op.kind = "store"
  /\ op.found
  /\ op.old_doc_id # op.doc_id
  /\ op.old_doc_id \notin DOMAIN doc_index_


StoreArgs(o) == <<o.chunk_id, o.doc_id, o.text, o.metadata, o.embedding>>

\* after store(c, d, t, m, e) the entry of c carries exactly d, t, m, e, and
\* there are as many entries as chunk_ids ever stored
C4_AfterStore ==
  /\ Cardinality(DOMAIN entries_) = Cardinality(ever_stored)
  /\ op.kind = "store" =>
       /\ op.chunk_id \in DOMAIN entries_
       /\ entries_[op.chunk_id] =
            VectorEntry(op.chunk_id, op.doc_id, op.text, op.metadata, op.embedding)

\* a store call that repeats the previous store call
C4_Repeat ==
  (op.kind = "store" /\ op'.kind = "store" /\ StoreArgs(op') = StoreArgs(op))
    => /\ entries_' = entries_
       /\ Members(doc_index_') = Members(doc_index_)

\* C4: store is an upsert keyed by chunk_id: after store(c, d, t, m, e) the
\* entry map holds one entry for c carrying exactly d, t, m, e, the number of
\* entries is the number of distinct chunk_ids ever stored, and repeating the
\* identical call changes neither the entry map nor the index membership.
C4_Upsert == [](C4_AfterStore) /\ [][C4_Repeat]_vars

\* a store has overwritten the entry of a chunk_id stored under another doc_id
C4_Witness ==
  /\ op.kind = "store"
  /\ op.found
  /\ op.old_doc_id # op.doc_id
  /\ Cardinality(ever_stored) = 3

\* a step that stores an existing chunk_id under a different doc_id
C5_MoveStep ==
  LET c == op'.chunk_id
      d == op'.doc_id
      old == entries_[c].doc_id
      rest == erase_remove(doc_index_[old], c)
  IN (op'.kind = "store" /\ op'.chunk_id \in DOMAIN entries_
        /\ entries_[op'.chunk_id].doc_id # op'.doc_id)
     => /\ DOMAIN entries_' = DOMAIN entries_
        /\ entries_'[c].doc_id = d
        /\ \A x \in DOMAIN entries_ : x # c => entries_'[x] = entries_[x]
        /\ IF rest = <<>> THEN old \notin DOMAIN doc_index_'
           ELSE old \in DOMAIN doc_index_' /\ doc_index_'[old] = rest
        /\ d \in DOMAIN doc_index_'
        /\ doc_index_'[d] =
             Append(IF d \in DOMAIN doc_index_ THEN doc_index_[d] ELSE <<>>, c)
        /\ \A x \in (DOMAIN doc_index_ \cup DOMAIN doc_index_') \ {old, d} :
             /\ x \in DOMAIN doc_index_
             /\ x \in DOMAIN doc_index_'
             /\ doc_index_'[x] = doc_index_[x]

\* C5: a store of an existing chunk_id c under a different doc_id keeps one
\* entry for c, removes c from the old bucket (and the bucket with it when it
\* empties), appends c to the new bucket, and changes no other bucket or entry.
C5_Move == [][C5_MoveStep]_vars

\* a chunk has been moved between two buckets while a third bucket exists
C5_Witness ==
  /\ op.kind = "store"
  /\ op.found
  /\ op.old_doc_id # op.doc_id
  /\ Cardinality(DOMAIN doc_index_ \ {op.old_doc_id, op.doc_id}) = 1
  /\ Cardinality(DOMAIN entries_) = 3

\* C6: a search with a non-empty filter D returns no chunk_id whose stored
\* entry has a doc_id other than D.
C6_FilteredIsolation ==
  (op.kind = "search" /\ op.doc_id_filter # "")
    => \A i \in DOMAIN results :
         /\ results[i].chunk_id \in DOMAIN entries_
         /\ entries_[results[i].chunk_id].doc_id = op.doc_id_filter

\* a filtered search has returned a chunk while another document holds chunks
C6_Witness ==
  /\ op.kind = "search"
  /\ op.doc_id_filter # ""
  /\ results # <<>>
  /\ \E c \in DOMAIN entries_ : entries_[c].doc_id # op.doc_id_filter

\* C7: with top_k at least the number of stored entries, a search with a
\* non-empty filter D returns exactly the chunk_ids of the entries whose doc_id
\* is D (none when D is unknown), and an unfiltered search returns every stored
\* chunk_id exactly once.
C7_FullRecall ==
  (op.kind = "search" /\ op.top_k >= Cardinality(DOMAIN entries_))
    => LET want == IF op.doc_id_filter # ""
                   THEN {c \in DOMAIN entries_ : entries_[c].doc_id = op.doc_id_filter}
                   ELSE DOMAIN entries_
       IN /\ ResultIds = want
          /\ Len(results) = Cardinality(want)

\* a filtered search has returned both chunks of a document, not the third
C7_Witness ==
  /\ op.kind = "search"
  /\ op.doc_id_filter # ""
  /\ op.top_k >= Cardinality(DOMAIN entries_)
  /\ Len(results) = 2
  /\ Cardinality(DOMAIN entries_) = 3

\* the number of candidates of the last search
NumCandidates ==
  IF op.doc_id_filter # ""
  THEN IF op.doc_id_filter \in DOMAIN doc_index_
       THEN Len(doc_index_[op.doc_id_filter]) ELSE 0
  ELSE Cardinality(DOMAIN entries_)

\* C8: search returns min(max(top_k, 0), number of candidates) results.
C8_ResultCount ==
  op.kind = "search" => Len(results) = Min(Max(op.top_k, 0), NumCandidates)

\* a search with a negative top_k over a non-empty candidate set
C8_Witness ==
  /\ op.kind = "search"
  /\ op.top_k < 0
  /\ NumCandidates >= 2
  /\ results = <<>>


\* the dot product over the shorter length, index by index
DotSpec(a, b) ==
  LET n == Min(a.len, b.len)
      I == {i \in (DOMAIN a.nz) \cup (DOMAIN b.nz) : i >= 0 /\ i < n}
  IN SumOver(I, [i \in I |-> FMul(At(a, i), At(b, i))])

\* the candidates of the last search
CandidateIds ==
  IF op.doc_id_filter # ""
  THEN {c \in DOMAIN entries_ : entries_[c].doc_id = op.doc_id_filter}
  ELSE DOMAIN entries_

ScoreOf(c) == DotSpec(op.query_embedding, entries_[c].embedding)

\* results are in non-increasing score order, each score is the dot product
\* of the query and the candidate's stored embedding, and no candidate left
\* out scores higher than a returned one
C9_Ranking ==
  op.kind = "search" =>
    /\ \A i \in DOMAIN results : results[i].score = ScoreOf(results[i].chunk_id)
    /\ \A i, j \in DOMAIN results : i < j => results[i].score >= results[j].score
    /\ \A c \in CandidateIds \ ResultIds :
         \A i \in DOMAIN results : ScoreOf(c) <= results[i].score

SharesToken(t1, t2) == Range(Tokens(t1)) \cap Range(Tokens(t2)) # {}

\* some token of t1 and some token of t2 hash to the same component
SharesBucket(t1, t2) ==
  \E a \in Range(Tokens(t1)), b \in Range(Tokens(t2)) :
    hash_[a] % EMBED_DIM = hash_[b] % EMBED_DIM

\* the last call is a search for the embedding of text T with top_k = 1 over
\* the two candidates x and y, stored with the embeddings of their texts, of
\* which x shares a token with T and y shares none
ExampleCase(T, x, y) ==
  /\ op.kind = "search"
  /\ op.top_k = 1
  /\ op.query_embedding = embed(T)
  /\ x # y
  /\ CandidateIds = {x, y}
  /\ entries_[x].embedding = embed(entries_[x].text)
  /\ entries_[y].embedding = embed(entries_[y].text)
  /\ SharesToken(T, entries_[x].text)
  /\ ~SharesToken(T, entries_[y].text)

\* C9 as stated: the ranking, and in the example case the candidate sharing
\* tokens with the query is the one returned
C9_AsStated ==
  /\ C9_Ranking
  /\ \A T \in Texts : \A x, y \in DOMAIN entries_ :
       ExampleCase(T, x, y) => ResultIds = {x}

\* C9 (amended): results are in non-increasing score order, each score is the
\* dot product of the query and the candidate's stored embedding over the
\* shorter length, no candidate left out scores higher than a returned one;
\* with one candidate sharing tokens with the query and one whose tokens share
\* neither a token nor a hash bucket with the query's, top_k = 1 returns the
\* sharing one.
C9_RankingAndExample ==
  /\ C9_Ranking
  /\ \A T \in Texts : \A x, y \in DOMAIN entries_ :
       (ExampleCase(T, x, y) /\ ~SharesBucket(T, entries_[y].text))
         => ResultIds = {x}

\* the example case without a shared bucket: the sharing candidate is returned
\* and the other one, scoring lower, is left out
C9_Witness ==
  \E T \in Texts : \E x, y \in DOMAIN entries_ :
    /\ ExampleCase(T, x, y)
    /\ ~SharesBucket(T, entries_[y].text)
    /\ ResultIds = {x}
    /\ ScoreOf(y) < results[1].score


-----------------------------------------------------------------------------
(* Requests and responses: nlohmann::json documents *)

JStr(x) == [t |-> "string", s |-> x, n |-> 0]

JNum(k) == [t |-> "number", s |-> "", n |-> k]

\* an object, named by its dump
JObj(x) == [t |-> "object", s |-> x, n |-> 0]

\* request.contains(key): a request is a function from the keys it holds
contains(request, key) == key \in DOMAIN request

is_string(v) == v.t = "string"

is_number(v) == v.t = "number"

OkStore == [status |-> "ok", message |-> "", has_results |-> FALSE, results |-> <<>>]

OkSearch(result_array) ==
  [status |-> "ok", message |-> "", has_results |-> TRUE, results |-> result_array]

Error(msg) == [status |-> "error", message |-> msg, has_results |-> FALSE, results |-> <<>>]

\* what a handler does: it returns a response or throws, and leaves the store
\* in (entries, index); stored is the chunk_id handed to VectorDB::store and
\* found the list VectorDB::search returned
Return(resp, ents, idx, stored, found) ==
  [thrown |-> FALSE, response |-> resp, what |-> "", entries |-> ents,
   index |-> idx, stored |-> stored, found |-> found]

Throw(what, ents, idx) ==
  [thrown |-> TRUE, response |-> NoResponse, what |-> what, entries |-> ents,
   index |-> idx, stored |-> {}, found |-> <<>>]

\* faulty variant: a request without text is stored with an empty text
\* before the error is returned
handle_store_eager(request, ents, idx) ==
  IF ~contains(request, "chunk_id") \/ ~contains(request, "doc_id")
       \/ ~contains(request, "text")
  THEN IF /\ contains(request, "chunk_id") /\ is_string(request["chunk_id"])
          /\ contains(request, "doc_id") /\ is_string(request["doc_id"])
       THEN {Return(Error("store requires chunk_id, doc_id, and text"),
                    store_entries(ents, request["chunk_id"].s, request["doc_id"].s,
                                  T_none, "{}", embed(T_none)),
                    store_index(idx, ents, request["chunk_id"].s,
                                request["doc_id"].s),
                    {request["chunk_id"].s}, <<>>)}
       ELSE {Return(Error("store requires chunk_id, doc_id, and text"), ents, idx,
                    {}, <<>>)}
  ELSE IF ~is_string(request["chunk_id"]) \/ ~is_string(request["doc_id"])
            \/ ~is_string(request["text"])
  THEN {Throw("type_error: type must be string", ents, idx)}
  ELSE LET chunk_id == request["chunk_id"].s
           doc_id == request["doc_id"].s
           text == request["text"].s
           metadata == IF contains(request, "metadata") THEN request["metadata"].s
                       ELSE "{}"
           embedding == embed(text)
       IN {Return(OkStore,
                  store_entries(ents, chunk_id, doc_id, text, metadata, embedding),
                  store_index(idx, ents, chunk_id, doc_id),
                  {chunk_id}, <<>>)}

\* Server::handle_store
handle_store(request, ents, idx) ==
  IF ~contains(request, "chunk_id") \/ ~contains(request, "doc_id")
       \/ ~contains(request, "text")
  THEN {Return(Error("store requires chunk_id, doc_id, and text"), ents, idx, {}, <<>>)}
  ELSE IF ~is_string(request["chunk_id"]) \/ ~is_string(request["doc_id"])
            \/ ~is_string(request["text"])
  THEN {Throw("type_error: type must be string", ents, idx)}
  ELSE LET chunk_id == request["chunk_id"].s
           doc_id == request["doc_id"].s
           text == request["text"].s
           metadata == IF contains(request, "metadata") THEN request["metadata"].s
                       ELSE "{}"
           embedding == embed(text)
       IN {Return(OkStore,
                  store_entries(ents, chunk_id, doc_id, text, metadata, embedding),
                  store_index(idx, ents, chunk_id, doc_id),
                  {chunk_id}, <<>>)}

\* the result_array loop of handle_search
result_array(found) ==
  [i \in DOMAIN found |->
     [chunk_id |-> found[i].chunk_id, score |-> found[i].score, text |-> found[i].text]]

\* faulty variant: an empty result list is answered with an error
handle_search_strict(request, ents, idx) ==
  IF ~contains(request, "query")
  THEN {Return(Error("search requires query"), ents, idx, {}, <<>>)}
  ELSE IF \/ ~is_string(request["query"])
          \/ contains(request, "top_k") /\ ~is_number(request["top_k"])
          \/ contains(request, "doc_id") /\ ~is_string(request["doc_id"])
  THEN {Throw("type_error", ents, idx)}
  ELSE LET query == request["query"].s
           top_k == IF contains(request, "top_k") THEN request["top_k"].n
                    ELSE DefaultTopK
           doc_id_filter == IF contains(request, "doc_id") THEN request["doc_id"].s
                            ELSE ""
       IN {IF found = <<>>
           THEN Return(Error("no results"), ents, idx, {}, found)
           ELSE Return(OkSearch(result_array(found)), ents, idx, {}, found) :
             found \in search(ents, idx, embed(query), top_k, doc_id_filter)}

\* faulty variant: top_k defaults to 3
handle_search_default3(request, ents, idx) ==
  IF ~contains(request, "query")
  THEN {Return(Error("search requires query"), ents, idx, {}, <<>>)}
  ELSE IF \/ ~is_string(request["query"])
          \/ contains(request, "top_k") /\ ~is_number(request["top_k"])
          \/ contains(request, "doc_id") /\ ~is_string(request["doc_id"])
  THEN {Throw("type_error", ents, idx)}
  ELSE LET query == request["query"].s
           top_k == IF contains(request, "top_k") THEN request["top_k"].n
                    ELSE 3
           doc_id_filter == IF contains(request, "doc_id") THEN request["doc_id"].s
                            ELSE ""
       IN {Return(OkSearch(result_array(found)), ents, idx, {}, found) :
             found \in search(ents, idx, embed(query), top_k, doc_id_filter)}

\* Server::handle_search
handle_search(request, ents, idx) ==
  IF ~contains(request, "query")
  THEN {Return(Error("search requires query"), ents, idx, {}, <<>>)}
  ELSE IF \/ ~is_string(request["query"])
          \/ contains(request, "top_k") /\ ~is_number(request["top_k"])
          \/ contains(request, "doc_id") /\ ~is_string(request["doc_id"])
  THEN {Throw("type_error", ents, idx)}
  ELSE LET query == request["query"].s
           top_k == IF contains(request, "top_k") THEN request["top_k"].n
                    ELSE DefaultTopK
           doc_id_filter == IF contains(request, "doc_id") THEN request["doc_id"].s
                            ELSE ""
       IN {Return(OkSearch(result_array(found)), ents, idx, {}, found) :
             found \in search(ents, idx, embed(query), top_k, doc_id_filter)}

\* faulty variant: an unknown action is answered like a search without
\* results
dispatch_lenient(request, ents, idx) ==
  IF ~contains(request, "action") \/ ~is_string(request["action"])
  THEN {Return(Error("Missing or invalid 'action' field"), ents, idx, {}, <<>>)}
  ELSE IF request["action"].s = "store" THEN handle_store(request, ents, idx)
  ELSE IF request["action"].s = "search" THEN handle_search(request, ents, idx)
  ELSE {Return(OkSearch(<<>>), ents, idx, {}, <<>>)}

\* Server::dispatch
dispatch(request, ents, idx) ==
  IF ~contains(request, "action") \/ ~is_string(request["action"])
  THEN {Return(Error("Missing or invalid 'action' field"), ents, idx, {}, <<>>)}
  ELSE IF request["action"].s = "store" THEN handle_store(request, ents, idx)
  ELSE IF request["action"].s = "search" THEN handle_search(request, ents, idx)
  ELSE {Return(Error("Unknown action: <action>"), ents, idx, {}, <<>>)}

\* the response handle_connection writes for a parsed request: the one
\* dispatch returned, or the error built from the exception it threw
response_of(outcome) ==
  IF outcome.thrown THEN Error(outcome.what) ELSE outcome.response

-----------------------------------------------------------------------------
(* The request interface: each step handles one parsed request *)

Field(key, value) == key :> value

StoreRequest(c, d, t) ==
  Field("action", JStr("store")) @@ Field("chunk_id", JStr(c))
    @@ Field("doc_id", JStr(d)) @@ Field("text", JStr(t))

SearchRequest(query) == Field("action", JStr("search")) @@ Field("query", JStr(query))

\* store requests, with and without metadata
StoreRequests ==
  {StoreRequest(c, d, T_ab_c) : c \in {"c1", "c2"}, d \in {"d1", "d2"}}
    \cup {StoreRequest(c, d, T_d) @@ Field("metadata", JObj("{p:1}")) :
            c \in {"c1", "c2"}, d \in {"d1", "d2"}}
    \cup {StoreRequest("c3", d, T_none) : d \in {"d2", "d3"}}

\* search requests: top_k and doc_id present or absent
SearchRequests ==
  {SearchRequest(query) @@ k @@ f :
     query \in {T_ab_e, T_d},
     k \in {<<>>} \cup {Field("top_k", JNum(x)) : x \in {0 - 1, 0, MaxTopK}},
     f \in {<<>>} \cup {Field("doc_id", JStr(x)) : x \in {"", "d2"}}}

\* requests that lack the action, a required field, or the type of one
MalformedRequests ==
  {<<>>,
   Field("action", JNum(1)),
   Field("action", JStr("delete")),
   Field("action", JStr("store")) @@ Field("chunk_id", JStr("c1")),
   Field("chunk_id", JNum(1)) @@ StoreRequest("c1", "d1", T_d),
   Field("action", JStr("search")),
   SearchRequest(T_d) @@ Field("top_k", JStr("1")),
   Field("action", JStr("search")) @@ Field("query", JNum(1))}

Requests == StoreRequests \cup SearchRequests \cup MalformedRequests

RequestOp(request) == [kind |-> "request", request |-> request]

\* the try block of handle_connection from dispatch on, with its handler for
\* std::exception
HandleRequest(request) ==
  \E outcome \in dispatch(request, entries_, doc_index_) :
    /\ entries_' = outcome.entries
    /\ doc_index_' = outcome.index
    /\ results' = outcome.found
    /\ response' = response_of(outcome)
    /\ ever_stored' = ever_stored \cup outcome.stored
    /\ op' = RequestOp(request)
    /\ UNCHANGED hash_
    /\ UNCHANGED server_vars

NextRequests == \E request \in Requests : HandleRequest(request)

SpecRequests == Init /\ [][NextRequests]_vars

-----------------------------------------------------------------------------
(* Properties of the request handlers, checked under SpecRequests *)

IsSearch(request) ==
  contains(request, "action") /\ request["action"] = JStr("search")

\* a search request with a string query, and top_k and doc_id of the right
\* type when present
WellFormedSearch(request) ==
  /\ IsSearch(request)
  /\ contains(request, "query") /\ is_string(request["query"])
  /\ contains(request, "top_k") => is_number(request["top_k"])
  /\ contains(request, "doc_id") => is_string(request["doc_id"])

RequestTopK(request) ==
  IF contains(request, "top_k") THEN request["top_k"].n ELSE DefaultTopK

RequestFilter(request) ==
  IF contains(request, "doc_id") THEN request["doc_id"].s ELSE ""

\* no stored entry is a candidate of the request
NoCandidate(request) ==
  \/ entries_ = <<>>
  \/ /\ RequestFilter(request) # ""
     /\ \A c \in DOMAIN entries_ : entries_[c].doc_id # RequestFilter(request)

\* C10: a well-formed search request on an empty store, with an empty
\* candidate set, or with top_k = 0 is answered with status ok and an empty
\* results list, for every filter and every top_k.
C10_EmptyIsOk ==
  (op.kind = "request" /\ WellFormedSearch(op.request)
     /\ (NoCandidate(op.request) \/ RequestTopK(op.request) = 0))
    => /\ response.status = "ok"
       /\ response.has_results
       /\ response.results = <<>>

\* a search whose filter names a document without chunks, on a store that
\* holds chunks, has been answered ok with no results
C10_Witness ==
  /\ op.kind = "request"
  /\ WellFormedSearch(op.request)
  /\ entries_ # <<>>
  /\ RequestFilter(op.request) # ""
  /\ NoCandidate(op.request)
  /\ response = OkSearch(<<>>)

-----------------------------------------------------------------------------
(* Framing: Server::read_message and Server::write_message *)

\* a message body that nlohmann::json::parse turns into the request `value`
Json(value) == [json |-> TRUE, value |-> value]

\* a message body that nlohmann::json::parse rejects with parse_error
Garbage == [json |-> FALSE, value |-> <<>>]

\* what a peer sends: the four bytes of the length header, then the body
Frame(len_buf, msg) == [len_buf |-> len_buf, msg |-> msg]

\* faulty variant: the header read as little-endian
decode_length_le(len_buf) ==
  [hi |-> len_buf[4] * 256 + len_buf[3], lo |-> len_buf[2] * 256 + len_buf[1]]

\* the uint32 `length` of read_message, (len_buf[0] << 24) | (len_buf[1] << 16)
\* | (len_buf[2] << 8) | len_buf[3], kept as its two 16-bit halves: its value
\* is hi * 2^16 + lo
decode_length(len_buf) ==
  [hi |-> len_buf[1] * 256 + len_buf[2], lo |-> len_buf[3] * 256 + len_buf[4]]

\* length > max, for a max below 2^31
length_gt(length, max) ==
  \/ length.hi > max \div 65536
  \/ length.hi = max \div 65536 /\ length.lo > max % 65536

\* faulty variant: the upper bound itself is rejected
invalid_length_strict(length) ==
  \/ length.hi = 0 /\ length.lo = 0
  \/ length_gt(length, 10 * 1024 * 1024 - 1)

\* the test `length == 0 || length > 10 * 1024 * 1024`
invalid_length(length) ==
  \/ length.hi = 0 /\ length.lo = 0
  \/ length_gt(length, 10 * 1024 * 1024)

\* the value of a length that passed the test
length_value(length) == length.hi * 65536 + length.lo

\* the most short reads of a payload a run of the model follows
MaxPartialReads == 1

\* what read returns for the payload when it returns data: all that is
\* missing, or a part of it
payload_reads(total, length, partial) ==
  {length - total}
    \cup (IF partial < MaxPartialReads /\ length - total > 1
          THEN {(length - total) \div 2} ELSE {})

\* the result of read_message: the payload, or the runtime_error it threw
ReadOk(msg) == [ok |-> TRUE, msg |-> msg, what |-> ""]

ReadThrow(what) == [ok |-> FALSE, msg |-> Garbage, what |-> what]

\* how a call of write_message ends: it returns, or one of its two loops
\* throws runtime_error on a write that returned n <= 0
WriteResults == {"ok", "length_failed", "payload_failed"}

WriteError(w) ==
  IF w = "length_failed" THEN "Failed to write message length"
  ELSE "Failed to write message payload"

\* one call of write_message
Written(msg, w) == [msg |-> msg, result |-> w]

-----------------------------------------------------------------------------
(* Server::handle_connection *)

\* the handler for nlohmann::json::parse_error: its write_message is not
\* inside a try, so the runtime_error of a failed write leaves
\* handle_connection
catch_parse_error(ws) ==
  {[writes |-> Append(ws, Written(Error("JSON parse error"), w)),
    escaped |-> w # "ok"] : w \in WriteResults}

\* faulty variant: the failure of the write leaves the handler
catch_exception_unguarded(what, ws) ==
  {[writes |-> Append(ws, Written(Error(what), w)), escaped |-> w # "ok"] :
     w \in WriteResults}

\* the handler for std::exception: its write_message is inside try/catch (...)
catch_exception(what, ws) ==
  {[writes |-> Append(ws, Written(Error(what), w)), escaped |-> FALSE] :
     w \in WriteResults}

\* write_message(client_fd, response.dump()) in the try block: it returns, or
\* its runtime_error is caught by the handler for std::exception
write_response(resp) ==
  {[writes |-> <<Written(resp, "ok")>>, escaped |-> FALSE]}
    \cup UNION {catch_exception(WriteError(w), <<Written(resp, w)>>) :
                  w \in WriteResults \ {"ok"}}

\* how handle_connection ends: what it handled, the response it built for
\* it, the store it leaves, its calls of write_message, and whether an
\* exception left it
Handled(o, resp, ents, idx, stored, found, w) ==
  [op |-> o, response |-> resp, entries |-> ents, index |-> idx,
   stored |-> stored, found |-> found, writes |-> w.writes,
   escaped |-> w.escaped]

\* handle_connection from the return of read_message on
handle_connection(rm, ents, idx) ==
  IF ~rm.ok
  THEN {Handled([kind |-> "read_error"], Error(rm.what), ents, idx, {}, <<>>, w) :
          w \in catch_exception(rm.what, <<>>)}
  ELSE IF ~rm.msg.json
  THEN {Handled([kind |-> "parse_error"], Error("JSON parse error"), ents, idx,
                {}, <<>>, w) : w \in catch_parse_error(<<>>)}
  ELSE LET request == rm.msg.value
       IN UNION
            {IF outcome.thrown
             THEN {Handled(RequestOp(request), response_of(outcome),
                           outcome.entries, outcome.index, outcome.stored,
                           outcome.found, w) :
                     w \in catch_exception(outcome.what, <<>>)}
             ELSE {Handled(RequestOp(request), outcome.response,
                           outcome.entries, outcome.index, outcome.stored,
                           outcome.found, w) :
                     w \in write_response(outcome.response)} :
               outcome \in dispatch(request, ents, idx)}

-----------------------------------------------------------------------------
(* The process: main and Server::run *)

\* how the calls of setup_socket can go: all succeed, or socket,
\* getaddrinfo, bind or listen fails
SetupResults == {"ok", "socket", "getaddrinfo", "bind", "listen"}

\* the characters of the value given to --port
PortChars(arg) ==
  CASE arg = "8080" -> <<"8", "0", "8", "0">>
    [] arg = "80x" -> <<"8", "0", "x">>
    [] arg = "-1" -> <<"-", "1">>
    [] arg = "abc" -> <<"a", "b", "c">>
    [] arg = "99999999999" ->
         <<"9", "9", "9", "9", "9", "9", "9", "9", "9", "9", "9">>
    [] OTHER -> <<>>

DigitChars == {"0", "1", "2", "3", "4", "5", "6", "7", "8", "9"}

DigitValue(c) ==
  CASE c = "0" -> 0 [] c = "1" -> 1 [] c = "2" -> 2 [] c = "3" -> 3
    [] c = "4" -> 4 [] c = "5" -> 5 [] c = "6" -> 6 [] c = "7" -> 7
    [] c = "8" -> 8 [] c = "9" -> 9

\* the digits std::stoi converts, from position i on: how many there are,
\* their value, and whether the value has left the range of int (the value
\* is then no longer computed)
RECURSIVE stoi_digits(_, _, _, _, _)
stoi_digits(s, i, n, value, range) ==
  IF i > Len(s) \/ s[i] \notin DigitChars
  THEN [n |-> n, value |-> value, out_of_range |-> range]
  ELSE IF range \/ value > (2147483647 - DigitValue(s[i])) \div 10
  THEN stoi_digits(s, i + 1, n + 1, value, TRUE)
  ELSE stoi_digits(s, i + 1, n + 1, value * 10 + DigitValue(s[i]), FALSE)

\* the position of the first character of s, from i on, that is not a space
RECURSIVE skip_space(_, _)
skip_space(s, i) ==
  IF i <= Len(s) /\ s[i] = " " THEN skip_space(s, i + 1) ELSE i

\* std::stoi(str): leading spaces are skipped, then an optional sign and
\* the digits that follow are converted, whatever comes after them;
\* invalid_argument is thrown when there is no digit, out_of_range when the
\* value is not an int
stoi(s) ==
  LET b == skip_space(s, 1)
      signed == b <= Len(s) /\ s[b] \in {"-", "+"}
      d == stoi_digits(s, IF signed THEN b + 1 ELSE b, 0, 0, FALSE)
  IN IF d.n = 0 THEN [thrown |-> "invalid_argument", value |-> 0]
     ELSE IF d.out_of_range THEN [thrown |-> "out_of_range", value |-> 0]
     ELSE [thrown |-> "",
           value |-> IF signed /\ s[b] = "-" THEN 0 - d.value ELSE d.value]

\* the argument loop of main, from argv[i] on (argv[0], the name of the
\* program, is left out): "parsed" with host and port, "usage" when main
\* prints the usage and returns 1, "terminate" when std::stoi throws, which
\* nothing catches
RECURSIVE main_args(_, _, _, _)
main_args(argv, i, host, port) ==
  IF i > Len(argv)
  THEN [outcome |-> "parsed", host |-> host, port |-> port]
  ELSE IF argv[i] = "--host" /\ i + 1 <= Len(argv)
  THEN main_args(argv, i + 2, argv[i + 1], port)
  ELSE IF argv[i] = "--port" /\ i + 1 <= Len(argv)
  THEN IF stoi(PortChars(argv[i + 1])).thrown # ""
       THEN [outcome |-> "terminate", host |-> host, port |-> port]
       ELSE main_args(argv, i + 2, host, stoi(PortChars(argv[i + 1])).value)
  ELSE [outcome |-> "usage", host |-> host, port |-> port]

\* Server::setup_socket: listen_fd_ and the open sockets when it returns or
\* throws. socket returns descriptor 3, the lowest that is free, or fails;
\* after a failure of getaddrinfo, bind or listen the socket is closed and
\* listen_fd_ set to -1 before the throw
setup_socket(result) ==
  IF result = "socket"
  THEN [listen_fd_ |-> 0 - 1, sockets |-> {}, thrown |-> TRUE]
  ELSE IF result \in {"getaddrinfo", "bind", "listen"}
  THEN [listen_fd_ |-> 0 - 1, sockets |-> {}, thrown |-> TRUE]
  ELSE [listen_fd_ |-> 3, sockets |-> {3}, thrown |-> FALSE]

\* faulty variant: the socket is left open
destructor_keep(fd, open) == open

\* Server::~Server: listen_fd_ is closed when it is not negative
destructor(fd, open) == IF fd >= 0 THEN open \ {fd} ELSE open

\* the arguments the modelled process is started with
ArgLists ==
  {<<>>,
   <<"--host", "0.0.0.0", "--port", "8080">>,
   <<"--port", "80x">>,
   <<"--port", "-1">>,
   <<"--port", "abc">>,
   <<"--port", "">>,
   <<"--port", "99999999999">>,
   <<"--port">>,
   <<"--host">>,
   <<"--verbose">>,
   <<"--host", "0.0.0.0", "8080">>}

\* the most client descriptors the process can hold (RLIMIT_NOFILE)
MaxOpenFds == 2

\* faulty variant: the loop never looks at the flag
loop_head_blind(flag) == "Accepting"

\* the loop condition `while (!shutdown_requested.load())`
loop_head(flag) == IF flag THEN "ShuttingDown" ELSE "Accepting"

\* the descriptor accept returns: the lowest one that is free (0 to 2 are
\* the standard streams, 3 is listen_fd_)
accept_fd(open) ==
  CHOOSE fd \in 4..(4 + Cardinality(open)) :
    fd \notin open /\ \A g \in 4..(fd - 1) : g \in open

\* faulty variant: the descriptor is never released
close_leak(open, fd) == open

\* close(client_fd)
close_fd(open, fd) == open \ {fd}

\* the requests the modelled clients send
ServerRequests ==
  {StoreRequest("c1", "d1", T_ab_c),
   StoreRequest("c1", "d2", T_d) @@ Field("metadata", JObj("{p:1}")),
   StoreRequest("c2", "d1", T_d),
   SearchRequest(T_d),
   SearchRequest(T_d) @@ Field("doc_id", JStr("d1")),
   SearchRequest(T_d) @@ Field("doc_id", JStr("d2")) @@ Field("top_k", JNum(MaxTopK)),
   <<>>,
   Field("action", JNum(1)),
   Field("action", JStr("delete")),
   Field("action", JStr("store")) @@ Field("chunk_id", JStr("c1"))
     @@ Field("doc_id", JStr("d1")),
   Field("action", JStr("search")) @@ Field("top_k", JNum(1)),
   Field("text", JNum(1)) @@ StoreRequest("c2", "d2", T_d)}

\* the frames the modelled clients send: requests in a body of 64 bytes, one
\* request in a body of exactly 10 MiB, a body of one byte that does not
\* parse, and headers that declare 0, 10 MiB + 1, 11 MiB, 2^31 and 2^32 - 1
Frames ==
  {Frame(<<0, 0, 0, 64>>, Json(request)) : request \in ServerRequests}
    \cup {Frame(<<0, 160, 0, 0>>, Json(SearchRequest(T_d))),
          Frame(<<0, 0, 0, 1>>, Garbage)}
    \cup {Frame(len_buf, Garbage) :
            len_buf \in {<<0, 0, 0, 0>>, <<0, 160, 0, 1>>, <<0, 176, 0, 0>>,
                         <<128, 0, 0, 0>>, <<255, 255, 255, 255>>}}

\* main up to the accept loop: the arguments are parsed (a usage error
\* returns 1, an exception of std::stoi ends the process by
\* std::terminate), the server is constructed and run installs the handlers
\* of SIGINT and SIGTERM and calls setup_socket, whose runtime_error
\* destroys the server and is caught in main, which returns 1
Startup(argv, result) ==
  /\ pc = "Idle"
  /\ LET a == main_args(argv, 1, "localhost", 50051)
         s == setup_socket(result)
     IN IF a.outcome = "usage"
        THEN /\ pc' = "Stopped" /\ exit_code' = "1"
             /\ startup' = [argv |-> argv, setup |-> "none"]
             /\ UNCHANGED <<listen_fd_, sockets>>
        ELSE IF a.outcome = "terminate"
        THEN /\ pc' = "Stopped" /\ exit_code' = "SIGABRT"
             /\ startup' = [argv |-> argv, setup |-> "none"]
             /\ UNCHANGED <<listen_fd_, sockets>>
        ELSE IF s.thrown
        THEN /\ pc' = "Stopped" /\ exit_code' = "1"
             /\ startup' = [argv |-> argv, setup |-> result]
             /\ listen_fd_' = 0 - 1
             /\ sockets' = destructor(s.listen_fd_, s.sockets)
        ELSE /\ pc' = "Listening"
             /\ startup' = [argv |-> argv, setup |-> result]
             /\ listen_fd_' = s.listen_fd_
             /\ sockets' = s.sockets
             /\ UNCHANGED exit_code
  /\ UNCHANGED <<db_vars, shutdown_requested, conns, client_fd, frame, rd,
                 writes, acked, wr, wire>>

\* run prints "Listening on" and evaluates the loop condition
EnterLoop ==
  /\ pc = "Listening"
  /\ pc' = loop_head(shutdown_requested)
  /\ UNCHANGED <<db_vars, shutdown_requested, listen_fd_, exit_code, conns,
                 client_fd, frame, rd, writes, acked,
                 sockets, startup, wr, wire>>

\* signal_handler, on SIGINT or SIGTERM, delivered while the process is not
\* blocked in read (an interrupted select is the `continue` of
\* SelectContinue)
Signal ==
  /\ pc \in {"Listening", "Accepting", "Handling", "ShuttingDown"}
  /\ shutdown_requested' = TRUE
  /\ UNCHANGED <<db_vars, pc, listen_fd_, exit_code, conns, client_fd, frame,
                 rd, writes, acked,
                 sockets, startup, wr, wire>>

\* select times out or is interrupted, or accept fails: `continue`, and the
\* loop condition is evaluated
SelectContinue ==
  /\ pc = "Accepting"
  /\ pc' = loop_head(shutdown_requested)
  /\ UNCHANGED <<db_vars, shutdown_requested, listen_fd_, exit_code, conns,
                 client_fd, frame, rd, writes, acked,
                 sockets, startup, wr, wire>>

\* select fails with an errno other than EINTR: `break`
SelectBreak ==
  /\ pc = "Accepting"
  /\ pc' = "ShuttingDown"
  /\ UNCHANGED <<db_vars, shutdown_requested, listen_fd_, exit_code, conns,
                 client_fd, frame, rd, writes, acked,
                 sockets, startup, wr, wire>>

\* select reports the listening socket ready and accept returns a
\* connection, whose peer sends frame f; handle_connection calls
\* read_message
AcceptConnection(f) ==
  /\ pc = "Accepting"
  /\ Cardinality(conns) < MaxOpenFds
  /\ pc' = "Handling"
  /\ client_fd' = accept_fd(conns)
  /\ conns' = conns \cup {accept_fd(conns)}
  /\ frame' = f
  /\ rd' = [phase |-> "length", total |-> 0, length |-> 0, partial |-> 0,
            error |-> "", errno |-> "", after |-> rd.error]
  /\ writes' = <<>>
  /\ op' = NoOp
  /\ results' = <<>>
  /\ response' = NoResponse
  /\ UNCHANGED <<entries_, doc_index_, hash_, ever_stored, shutdown_requested,
                 listen_fd_, exit_code, acked,
                 sockets, startup, wr, wire>>

\* the rest of handle_connection once read_message has returned or thrown,
\* then close(client_fd) and the loop condition, with the flag as the step
\* leaves it; an exception that leaves
\* handle_connection leaves run, main catches it and returns 1 (the
\* destructor of Server closes listen_fd_, the exit of the process closes
\* the connection)
FinishFlag(rm, ended, flag) ==
  \E h \in handle_connection(rm, entries_, doc_index_) :
    /\ entries_' = h.entries
    /\ doc_index_' = h.index
    /\ results' = h.found
    /\ response' = h.response
    /\ ever_stored' = ever_stored \cup h.stored
    /\ op' = h.op
    /\ writes' = h.writes
    /\ acked' = IF h.response = OkStore
                THEN PutKey(acked, h.op.request["chunk_id"].s,
                            [doc_id |-> h.op.request["doc_id"].s,
                             text |-> h.op.request["text"].s])
                ELSE acked
    /\ rd' = ended
    /\ frame' = NoFrame
    /\ client_fd' = 0 - 1
    /\ IF h.escaped
       THEN /\ pc' = "Stopped"
            /\ exit_code' = "1"
            /\ listen_fd_' = 0 - 1
            /\ sockets' = destructor(listen_fd_, sockets)
            /\ conns' = {}
       ELSE /\ pc' = loop_head(flag)
            /\ conns' = close_fd(conns, client_fd)
            /\ UNCHANGED <<exit_code, listen_fd_, sockets>>
    /\ shutdown_requested' = flag
    /\ UNCHANGED <<hash_, startup, wr, wire>>

\* the same when no signal is delivered in the step
Finish(rm, ended) == FinishFlag(rm, ended, shutdown_requested)

\* one read of the header loop returns n bytes; with the fourth byte the
\* length is decoded and tested
ReadLength(n) ==
  /\ pc = "Handling"
  /\ rd.phase = "length"
  /\ n \in 1..(4 - rd.total)
  /\ IF rd.total + n < 4
     THEN /\ rd' = [rd EXCEPT !.total = @ + n]
          /\ UNCHANGED <<db_vars, pc, shutdown_requested, listen_fd_, exit_code,
                         conns, client_fd, frame, writes, acked,
                 sockets, startup, wr, wire>>
     ELSE IF invalid_length(decode_length(frame.len_buf))
     THEN Finish(ReadThrow("Invalid message length"),
                 [rd EXCEPT !.total = 4, !.error = "Invalid message length"])
     ELSE /\ rd' = [rd EXCEPT
                      !.phase = "payload", !.total = 0,
                      !.length = length_value(decode_length(frame.len_buf))]
          /\ UNCHANGED <<db_vars, pc, shutdown_requested, listen_fd_, exit_code,
                         conns, client_fd, frame, writes, acked,
                 sockets, startup, wr, wire>>

\* one read of the payload loop returns n bytes; with the last byte
\* read_message returns the payload
ReadPayload ==
  /\ pc = "Handling"
  /\ rd.phase = "payload"
  /\ \E n \in payload_reads(rd.total, rd.length, rd.partial) :
       IF rd.total + n < rd.length
       THEN /\ rd' = [rd EXCEPT !.total = @ + n, !.partial = @ + 1]
            /\ UNCHANGED <<db_vars, pc, shutdown_requested, listen_fd_,
                           exit_code, conns, client_fd, frame, writes, acked,
                 sockets, startup, wr, wire>>
       ELSE Finish(ReadOk(frame.msg),
                   [rd EXCEPT !.phase = "done", !.total = rd.length,
                              !.partial = 0])

\* a read of read_message returns n <= 0: the peer has closed the
\* connection, or the read failed
ReadFail ==
  /\ pc = "Handling"
  /\ rd.phase \in {"length", "payload"}
  /\ LET what == IF rd.phase = "length" THEN "Failed to read message length"
                 ELSE "Failed to read message payload"
     IN Finish(ReadThrow(what), [rd EXCEPT !.partial = 0, !.error = what])

\* SIGINT or SIGTERM is delivered while read_message is blocked in read:
\* signal_handler sets the flag and, the handlers being installed with
\* sa_flags = 0 (no SA_RESTART), read returns -1 with errno EINTR, which
\* read_message takes as a failure
ReadInterrupted ==
  /\ pc = "Handling"
  /\ rd.phase \in {"length", "payload"}
  /\ LET what == IF rd.phase = "length" THEN "Failed to read message length"
                 ELSE "Failed to read message payload"
     IN FinishFlag(ReadThrow(what),
                   [rd EXCEPT !.partial = 0, !.error = what, !.errno = "EINTR"],
                   TRUE)

\* the loop has ended: run prints "Shutting down" and returns, the
\* destructor of Server closes listen_fd_, main returns 0
Shutdown ==
  /\ pc = "ShuttingDown"
  /\ pc' = "Stopped"
  /\ exit_code' = "0"
  /\ listen_fd_' = 0 - 1
  /\ sockets' = destructor(listen_fd_, sockets)
  /\ UNCHANGED <<db_vars, shutdown_requested, conns, client_fd, frame, rd,
                 writes, acked, startup, wr, wire>>

NextServer ==
  \/ \E argv \in ArgLists, result \in SetupResults : Startup(argv, result)
  \/ EnterLoop
  \/ Signal
  \/ SelectContinue
  \/ SelectBreak
  \/ \E f \in Frames : AcceptConnection(f)
  \/ \E n \in 1..4 : ReadLength(n)
  \/ ReadPayload
  \/ ReadFail
  \/ ReadInterrupted
  \/ Shutdown

SpecServer == Init /\ [][NextServer]_vars

-----------------------------------------------------------------------------
(* Properties of the server, checked under SpecServer *)

IsStore(request) ==
  contains(request, "action") /\ request["action"] = JStr("store")

\* the store as the two maps of VectorDB
TheStore == <<entries_, doc_index_>>

\* a step in which handle_connection ends
ConnectionEnds == pc = "Handling" /\ pc' # "Handling"

\* C11: a step changes the entry map or the doc index only if it handles a
\* store request that is answered with status ok; a step that ends a
\* connection with a search, with an error response (unknown or missing
\* action, missing or wrongly typed field, body that does not parse) or with a
\* framing error leaves both maps as they were.
C11_OnlyOkStoreChanges ==
  [][/\ TheStore' # TheStore
        => /\ ConnectionEnds
           /\ op'.kind = "request"
           /\ IsStore(op'.request)
           /\ response' = OkStore
     /\ (ConnectionEnds /\ op'.kind \in {"read_error", "parse_error"})
        => TheStore' = TheStore
     /\ (ConnectionEnds /\ op'.kind = "request"
          /\ (response'.status = "error" \/ IsSearch(op'.request)))
        => TheStore' = TheStore]_vars

\* a store request with a wrongly typed text has been answered with an error
\* on a store that holds a chunk
C11_Witness ==
  /\ op.kind = "request"
  /\ IsStore(op.request)
  /\ contains(op.request, "text") /\ ~is_string(op.request["text"])
  /\ response.status = "error"
  /\ entries_ # <<>>

\* the chunk_ids whose last store answered ok named doc_id filter f, all of
\* them for the empty filter
AckedUnder(f) == {c \in DOMAIN acked : f = "" \/ acked[c].doc_id = f}

ResponseIds == {response.results[i].chunk_id : i \in DOMAIN response.results}

\* C12: a search answered ok returns only chunks whose last store answered ok
\* makes them candidates of its filter (all chunks without filter), each with
\* the text of that store, and all of them when top_k allows; and in every
\* state, so in every state a search reads, the entry map holds exactly the
\* chunks stored with answer ok, with the doc_id and the text of their last
\* store, and the doc index lists each of them under that doc_id and under no
\* other.
C12_SearchSeesStores ==
  /\ (op.kind = "request" /\ WellFormedSearch(op.request))
       => /\ response.status = "ok"
          /\ ResponseIds \subseteq AckedUnder(RequestFilter(op.request))
          /\ RequestTopK(op.request) >= Cardinality(AckedUnder(RequestFilter(op.request)))
               => ResponseIds = AckedUnder(RequestFilter(op.request))
          /\ \A i \in DOMAIN response.results :
               response.results[i].text = acked[response.results[i].chunk_id].text
  /\ DOMAIN entries_ = DOMAIN acked
  /\ \A c \in DOMAIN acked :
       /\ entries_[c].doc_id = acked[c].doc_id
       /\ entries_[c].text = acked[c].text
       /\ acked[c].doc_id \in DOMAIN doc_index_
  /\ \A d \in DOMAIN doc_index_ : Range(doc_index_[d]) = AckedUnder(d)

\* a search filtered by d2 has returned chunk c1, stored last under d2 with
\* the text "d", while the store also holds a chunk of d1
C12_Witness ==
  /\ op.kind = "request"
  /\ WellFormedSearch(op.request)
  /\ RequestFilter(op.request) = "d2"
  /\ "c2" \in DOMAIN acked
  /\ ResponseIds = {"c1"}
  /\ response.results[1].text = T_d

\* C13: at most one client connection is open, and one is open exactly while
\* the server is in Handling; a connection is accepted only in a step from
\* Accepting with no connection open, no connection is accepted while one is
\* handled, and the server leaves Handling only with that connection closed,
\* in the step in which read_message returns or throws: until then a peer
\* that does not complete its frame keeps the server in Handling.
C13_OneConnection ==
  /\ [](/\ Cardinality(conns) <= 1
        /\ conns # {} <=> pc = "Handling"
        /\ pc = "Handling" => conns = {client_fd})
  /\ [][/\ conns' \ conns # {}
           => (pc = "Accepting" /\ conns = {} /\ pc' = "Handling")
        /\ (pc = "Handling" /\ pc' = "Handling") => conns' = conns
        /\ (pc = "Handling" /\ pc' # "Handling")
           => /\ conns' = {}
              /\ rd.phase \in {"length", "payload"}
              /\ rd'.phase = "done" \/ rd'.error # ""]_vars

\* the server waits in Handling for the rest of a payload of which a part
\* has arrived
C13_Witness ==
  /\ pc = "Handling"
  /\ rd.phase = "payload"
  /\ 0 < rd.total /\ rd.total < rd.length
  /\ conns = {client_fd}

\* a call of write_message for the connection failed
WriteFailed(ws) == \E i \in DOMAIN ws : ws[i].result # "ok"

\* handle_connection has returned, close(client_fd) has run and the loop
\* condition has been evaluated: the server is in Accepting again, or, with
\* the shutdown flag set, has left the loop
BackInLoop ==
  /\ conns' = {}
  /\ exit_code' = "none"
  /\ listen_fd_' = listen_fd_
  /\ pc' = "Accepting" \/ (shutdown_requested' /\ pc' = "ShuttingDown")

\* C14: when a write of a response fails, whatever the response (the one of
\* dispatch, the error for a request-shape error, the error for a body that
\* does not parse), the connection is closed, the server is back in the accept
\* loop and the process has not terminated.
C14_WriteFailureSwallowed ==
  [][(ConnectionEnds /\ WriteFailed(writes')) => BackInLoop]_vars

\* C15: for a connection at most one response write is made: no
\* write_message is called after another one of the same connection, failed
\* or not.
C15_OneResponseWrite == Len(writes) <= 1

\* the value of a four-byte big-endian header below 2^31
BigEndian(len_buf) ==
  ((len_buf[1] * 256 + len_buf[2]) * 256 + len_buf[3]) * 256 + len_buf[4]

\* the header declares a length of 1 to 10 MiB
DeclaresValidLength(len_buf) ==
  /\ len_buf[1] < 128
  /\ 1 <= BigEndian(len_buf)
  /\ BigEndian(len_buf) <= 10485760

\* a step that ends a connection with a framing error: the header was read
\* and declares 0 or more than 10 MiB, or a read failed before the header or
\* the declared body was complete
FramingErrorStep ==
  /\ ConnectionEnds
  /\ \/ rd.phase = "length" /\ rd'.total = 4 /\ ~DeclaresValidLength(frame.len_buf)
     \/ rd.phase = "length" /\ rd'.total < 4
     \/ rd.phase = "payload" /\ rd'.total < rd.length

C17_LengthTest ==
  /\ [][(pc = "Handling" /\ rd.phase = "length"
           /\ (rd'.phase = "payload" \/ rd'.total = 4))
          => IF DeclaresValidLength(frame.len_buf)
             THEN /\ pc' = "Handling"
                  /\ rd'.phase = "payload"
                  /\ rd'.length = BigEndian(frame.len_buf)
                  /\ rd'.total = 0
             ELSE /\ pc' # "Handling"
                  /\ rd'.phase = "length"
                  /\ rd'.error = "Invalid message length"
                  /\ op'.kind = "read_error"]_vars
  /\ [](/\ invalid_length(decode_length(<<0, 0, 0, 0>>))
        /\ invalid_length(decode_length(<<0, 160, 0, 1>>))
        /\ ~invalid_length(decode_length(<<0, 160, 0, 0>>))
        /\ ~invalid_length(decode_length(<<0, 0, 0, 1>>)))

\* a header that declares exactly 10 MiB has been accepted and the payload
\* is being read
C17_Witness ==
  /\ pc = "Handling"
  /\ rd.phase = "payload"
  /\ rd.length = 10 * 1024 * 1024
  /\ frame.len_buf = <<0, 160, 0, 0>>

\* C18: a connection whose body was read completely and does not parse ends
\* with one response written, of status error with a message, with the
\* connection closed and the server back in the accept loop.
C18_ParseErrorAnswered ==
  [][(ConnectionEnds /\ op'.kind = "parse_error")
       => /\ response'.status = "error"
          /\ response'.message # ""
          /\ Len(writes') = 1
          /\ writes'[1].msg = response'
          /\ BackInLoop]_vars

\* the request lacks what dispatch, handle_store or handle_search require
\* before anything else: a string action, a known action, the fields of a
\* store, the query of a search
ShapeError(request) ==
  \/ "action" \notin DOMAIN request
  \/ request["action"].t # "string"
  \/ request["action"].s \notin {"store", "search"}
  \/ /\ request["action"].s = "store"
     /\ {"chunk_id", "doc_id", "text"} \ DOMAIN request # {}
  \/ /\ request["action"].s = "search"
     /\ "query" \notin DOMAIN request

\* the message that names what the request lacks
ShapeMessage(request) ==
  IF "action" \notin DOMAIN request \/ request["action"].t # "string"
  THEN "Missing or invalid 'action' field"
  ELSE IF request["action"].s = "store"
  THEN "store requires chunk_id, doc_id, and text"
  ELSE IF request["action"].s = "search" THEN "search requires query"
  ELSE "Unknown action: <action>"

-----------------------------------------------------------------------------
(* The handlers applied to prepared stores: each behaviour starts from the  *)
(* store a sequence of store requests leaves and handles one more request   *)

\* six chunks of one document
ScriptOneDoc ==
  <<StoreRequest("c1", "d1", T_ab_e), StoreRequest("c2", "d1", T_ab_c),
    StoreRequest("c3", "d1", T_d), StoreRequest("c4", "d1", T_none),
    StoreRequest("c5", "d1", T_ab_c), StoreRequest("c6", "d1", T_d)>>

\* three chunks of two documents
ScriptTwoDocs ==
  <<StoreRequest("c1", "d1", T_d), StoreRequest("c2", "d2", T_ab_e),
    StoreRequest("c3", "d1", T_ab_c)>>

RECURSIVE StoreAll(_, _, _, _)
\* the store after handle_store has handled script[i], script[i + 1], ...
StoreAll(script, i, ents, idx) ==
  IF i > Len(script) THEN [entries |-> ents, index |-> idx]
  ELSE LET outcome == CHOOSE o \in handle_store(script[i], ents, idx) : TRUE
       IN StoreAll(script, i + 1, outcome.entries, outcome.index)

\* searches of document d1, without top_k, with top_k = 5 and with top_k = 6
FilteredSearches ==
  {SearchRequest(T_ab_e) @@ Field("doc_id", JStr("d1")) @@ k :
     k \in {<<>>, Field("top_k", JNum(5)), Field("top_k", JNum(6))}}

\* searches without doc_id, with an empty doc_id and with doc_id d1, with and
\* without top_k
OpenSearches ==
  {SearchRequest(T_ab_e) @@ f @@ k :
     f \in {<<>>, Field("doc_id", JStr("")), Field("doc_id", JStr("d1"))},
     k \in {<<>>, Field("top_k", JNum(1))}}

\* stores with and without metadata, of a stored and of a new chunk
MetadataStores ==
  {StoreRequest(c, "d1", T_d) @@ m :
     c \in {"c1", "c7"}, m \in {<<>>, Field("metadata", JObj("{p:1}"))}}

\* one chunk stored with a text, then a search with top_k = 1 whose query is
\* one of the texts, the stored one among them
RoundTrips ==
  {<<(<<StoreRequest(c, "d1", text)>>),
     SearchRequest(query) @@ Field("top_k", JNum(1))>> :
     c \in {"c1", "c2"}, text \in Texts, query \in Texts}

\* the prepared store and the request handled on it: searches of one
\* document and stores on stores of up to six chunks, searches of all
\* documents on stores of up to three chunks, and the round trips
DefaultsCases ==
  {<<SubSeq(ScriptOneDoc, 1, k), request>> :
     k \in 0..6, request \in FilteredSearches \cup MetadataStores}
    \cup {<<SubSeq(ScriptTwoDocs, 1, k), request>> :
            k \in 0..3, request \in OpenSearches}
    \cup RoundTrips

PendingOp(request) == [kind |-> "pending", request |-> request]

InitDefaults ==
  /\ hash_ \in HashFns
  /\ \E case \in DefaultsCases :
       /\ entries_ = StoreAll(case[1], 1, <<>>, <<>>).entries
       /\ doc_index_ = StoreAll(case[1], 1, <<>>, <<>>).index
       /\ ever_stored = DOMAIN StoreAll(case[1], 1, <<>>, <<>>).entries
       /\ op = PendingOp(case[2])
  /\ results = <<>>
  /\ response = NoResponse
  /\ InitServer

\* the pending request is handled
ApplyCase ==
  /\ op.kind = "pending"
  /\ HandleRequest(op.request)

NextDefaults == ApplyCase

SpecDefaults == InitDefaults /\ [][NextDefaults]_vars

-----------------------------------------------------------------------------
(* Properties of the defaults, checked under SpecDefaults *)

\* the responses handle_search can give to the request on the store as it is
SearchResponses(request) ==
  {outcome.response : outcome \in handle_search(request, entries_, doc_index_)}

\* C20: a search without top_k is answered as the same search with top_k = 5
\* is, so with at most 5 results; a search without doc_id returns what the
\* unfiltered search of VectorDB returns; a store without metadata leaves the
\* empty object as the metadata of the entry.
C20_Defaults ==
  op.kind = "request"
    => /\ (WellFormedSearch(op.request) /\ ~contains(op.request, "top_k"))
            => /\ SearchResponses(op.request)
                    = SearchResponses(Field("top_k", JNum(5)) @@ op.request)
               /\ response \in SearchResponses(Field("top_k", JNum(5)) @@ op.request)
               /\ Len(response.results) <= 5
       /\ (WellFormedSearch(op.request) /\ ~contains(op.request, "doc_id"))
            => /\ results \in search(entries_, doc_index_,
                                     embed(op.request["query"].s),
                                     IF contains(op.request, "top_k")
                                     THEN op.request["top_k"].n ELSE 5, "")
               /\ SearchResponses(op.request)
                    = SearchResponses(Field("doc_id", JStr("")) @@ op.request)
       /\ (IsStore(op.request) /\ response = OkStore
             /\ ~contains(op.request, "metadata"))
            => entries_[op.request["chunk_id"].s].metadata = "{}"

\* a search without top_k on a document of six chunks has returned five
C20_Witness ==
  /\ op.kind = "request"
  /\ WellFormedSearch(op.request)
  /\ ~contains(op.request, "top_k")
  /\ "d1" \in DOMAIN doc_index_
  /\ Len(doc_index_["d1"]) = 6
  /\ Len(response.results) = 5

-----------------------------------------------------------------------------
(* Properties of search results, checked under SpecRequests *)

\* the fields of a search result
ResultFields == {"chunk_id", "score", "text"}

\* C21: every element of the list VectorDB::search returns and every element
\* of the results of a response has exactly the fields chunk_id, score and
\* text: the metadata of an entry is in neither.
C21_ThreeFields ==
  /\ \A i \in DOMAIN results : DOMAIN results[i] = ResultFields
  /\ \A i \in DOMAIN response.results : DOMAIN response.results[i] = ResultFields

\* the part of C21 about the response: every element of the results of a
\* response has exactly the fields chunk_id, score and text.
C21_ResponseFields ==
  \A i \in DOMAIN response.results : DOMAIN response.results[i] = ResultFields


-----------------------------------------------------------------------------
(* The lifecycle of the process, checked under SpecServer *)

\* the moves of the state machine Idle -> Listening -> (Accepting <->
\* Handling) -> ShuttingDown -> Stopped; a startup that fails goes from Idle
\* to Stopped, and the loop condition that ends the loop is evaluated between
\* two iterations, that is after Listening or after Handling as well
LifecycleMoves ==
  {<<"Idle", "Listening">>, <<"Idle", "Stopped">>,
   <<"Listening", "Accepting">>, <<"Listening", "ShuttingDown">>,
   <<"Accepting", "Handling">>, <<"Accepting", "ShuttingDown">>,
   <<"Handling", "Accepting">>, <<"Handling", "ShuttingDown">>,
   <<"ShuttingDown", "Stopped">>}

\* C22: the process moves only along Idle -> Listening -> (Accepting <->
\* Handling) -> ShuttingDown -> Stopped: Listening is entered only from Idle,
\* Handling only from Accepting, a connection in Handling ends with the
\* server back in the loop (in Accepting, or in ShuttingDown when the loop
\* condition finds the flag set), and nothing changes once Stopped.
C22_Lifecycle ==
  [][/\ pc' # pc => <<pc, pc'>> \in LifecycleMoves
     /\ (pc = "Handling" /\ pc' = "ShuttingDown") => shutdown_requested
     /\ pc = "Stopped" => UNCHANGED vars]_vars

\* the part of C22 that does not depend on how a connection ends: Listening
\* is entered once, from Idle, Handling only from Accepting, Stopped is
\* terminal
C22_EntryAndEnd ==
  [][/\ pc' = "Listening" => pc \in {"Idle", "Listening"}
     /\ pc' = "Idle" => pc = "Idle"
     /\ pc' = "Handling" => pc \in {"Accepting", "Handling"}
     /\ pc = "Stopped" => UNCHANGED vars]_vars


\* a port as the command line should give it: one to five decimal digits
IsPort(arg) ==
  /\ Len(PortChars(arg)) \in 1..5
  /\ \A i \in DOMAIN PortChars(arg) : PortChars(arg)[i] \in DigitChars

\* arguments of the form [--host HOST] [--port PORT]
ValidArgs(argv) ==
  /\ Len(argv) % 2 = 0
  /\ \A i \in DOMAIN argv :
       i % 2 = 1 => /\ argv[i] \in {"--host", "--port"}
                    /\ argv[i] = "--port" => IsPort(argv[i + 1])

\* the process has ended without service: a non-zero outcome, no listening
\* socket left open, no connection ever accepted
EndedWithoutService ==
  /\ pc = "Stopped"
  /\ exit_code \notin {"none", "0"}
  /\ sockets = {} /\ listen_fd_ < 0
  /\ conns = {} /\ rd = NoRead /\ writes = <<>>

Started == pc # "Idle"

\* C23: when the command-line arguments are invalid, or socket, getaddrinfo,
\* bind or listen fails, the process ends with a non-zero outcome without
\* ever entering Accepting or accepting a connection, and leaves no
\* listening socket open.
C23_StartupFailure ==
  (Started /\ (~ValidArgs(startup.argv) \/ startup.setup \notin {"ok", "none"}))
    => EndedWithoutService

\* the part of C23 that holds: the same for the arguments main rejects (an
\* unknown option, an option without its value, a port std::stoi cannot
\* convert) and for every failure of setup_socket
C23_RejectedStartup ==
  (Started /\ (main_args(startup.argv, 1, "localhost", 50051).outcome # "parsed"
                \/ startup.setup \notin {"ok", "none"}))
    => EndedWithoutService

C23_Witness ==
  /\ pc = "Stopped"
  /\ startup.setup = "listen"
  /\ EndedWithoutService


-----------------------------------------------------------------------------
(* Shutdown, checked under SpecServerFair *)

\* the accept loop with its scheduling: select returns after one second at
\* the latest, so the loop condition is evaluated again as long as no
\* connection is taken, and run, once out of the loop, returns
SpecServerFair ==
  SpecServer /\ WF_vars(SelectContinue) /\ WF_vars(Shutdown)

\* C24: when the flag is set while the server is in Accepting and no
\* connection arrives, the loop evaluates its condition again and the
\* process reaches Stopped; with the flag unset, a timeout, an interrupted
\* select or a failed accept leaves the server in Accepting.
C24_FlagSeenWithoutTraffic ==
  /\ (pc = "Accepting" /\ shutdown_requested)
       ~> (pc = "Stopped" \/ pc = "Handling")
  /\ [][(SelectContinue /\ ~shutdown_requested) => pc' = "Accepting"]_pc
  /\ []((pc = "Accepting" /\ ~shutdown_requested)
          => loop_head(shutdown_requested) = "Accepting")

C24_Witness ==
  /\ pc = "Accepting"
  /\ shutdown_requested
  /\ rd = NoRead


\* the peer did not deliver a frame with a valid length: it closed the
\* connection, a read failed, or the length is invalid
PeerFailed == rd.error # "" /\ rd.errno # "EINTR"

\* the request of the connection was read to its end and answered: dispatched
\* or refused with an error response, and a response written
CycleCompleted ==
  /\ rd.phase = "done"
  /\ response # NoResponse
  /\ writes # <<>>

\* C25: a connection that is in Handling when the shutdown signal arrives
\* still completes its request/response cycle (the request read to its end,
\* dispatched, the response written) before the server enters ShuttingDown:
\* the signal does not cut it short.
C25_HandlingCompletes ==
  [][(ConnectionEnds /\ shutdown_requested' /\ ~PeerFailed')
       => CycleCompleted']_vars

\* the part of C25 that holds: the same when the signal is delivered while
\* read_message is not blocked in read
C25_BetweenReads ==
  [][(ConnectionEnds /\ shutdown_requested' /\ rd'.error = "")
       => (CycleCompleted' /\ pc' \in {"ShuttingDown", "Stopped"})]_vars


\* the loop has ended with the flag set
FlagObserved == pc \in {"ShuttingDown", "Stopped"} /\ shutdown_requested

\* C26: once the accept loop has found the flag set, no connection is
\* accepted or handled any more, the store is not changed again, and the
\* listening socket is closed: it is when the process has stopped, which
\* follows.
C26_AfterFlagObserved ==
  /\ [][FlagObserved
          => /\ pc' \in {"ShuttingDown", "Stopped"}
             /\ UNCHANGED <<entries_, doc_index_, acked, conns, client_fd,
                            frame, rd, writes, response>>]_vars
  /\ []((FlagObserved /\ pc = "Stopped") => (sockets = {} /\ listen_fd_ < 0))
  /\ FlagObserved ~> (pc = "Stopped" /\ sockets = {})

C26_Witness ==
  /\ pc = "Stopped"
  /\ shutdown_requested
  /\ exit_code = "0"
  /\ DOMAIN entries_ # {}
  /\ rd.phase = "done"
  /\ sockets = {}


\* C27: when a shutdown signal is delivered after a successful startup, the
\* loop ends and the process terminates with outcome zero, whatever the
\* connections handled up to then (valid or malformed requests, framing
\* errors, failed response writes): a process that has stopped with the
\* flag set has returned 0.
C27_SignalGivesZero ==
  (startup.setup = "ok" /\ shutdown_requested /\ pc = "Stopped")
    => exit_code = "0"

\* the part of C27 that holds: the same unless the last connection carried a
\* body that does not parse and the write of its error response failed
C27_ZeroUnlessParseErrorUnwritten ==
  (/\ startup.setup = "ok" /\ shutdown_requested /\ pc = "Stopped"
   /\ ~(op.kind = "parse_error" /\ WriteFailed(writes)))
    => exit_code = "0"


\* C28: a chunk_id that has been stored stays in the entry map in every
\* later state of the process: no step removes an entry, and the number of
\* entries never decreases.
C28_EntriesStay ==
  /\ [][/\ DOMAIN entries_ \subseteq DOMAIN entries_'
        /\ Cardinality(DOMAIN entries_) <= Cardinality(DOMAIN entries_')]_vars
  /\ [](ever_stored \subseteq DOMAIN entries_)

C28_Witness ==
  /\ DOMAIN entries_ = {"c1", "c2"}
  /\ ever_stored = {"c1", "c2"}
  /\ response.status = "error"
  /\ pc = "Stopped"


-----------------------------------------------------------------------------
(* Properties of the embedder, checked under SpecServer *)

\* v has EMBED_DIM components
HasDimension(v) ==
  /\ v.len = EMBED_DIM
  /\ \A i \in DOMAIN v.nz : i \in 0..(EMBED_DIM - 1)

\* C29: embed returns a vector of exactly EMBED_DIM = 4096 components for
\* every text, so after any sequence of requests every embedding the store
\* holds and every query embedding handle_search passes to search has that
\* length.
C29_EmbeddingLength ==
  /\ \A t \in Texts : HasDimension(embed(t))
  /\ \A c \in DOMAIN entries_ : HasDimension(entries_[c].embedding)
  /\ (op.kind = "request" /\ WellFormedSearch(op.request))
       => HasDimension(embed(op.request["query"].s))

C29_Witness ==
  /\ DOMAIN entries_ = {"c1", "c2"}
  /\ op.kind = "request" /\ WellFormedSearch(op.request)
  /\ results # <<>>
  /\ \A c \in DOMAIN entries_ : entries_[c].embedding.len = 4096


(* The normalisation, checked under SpecRequests *)

\* the sum of the squares of the components of v, exact, in units of
\* 1 / (Scale * Scale)
SumSquares(v) ==
  SumOver(DOMAIN v.nz, [i \in DOMAIN v.nz |-> v.nz[i] * v.nz[i]])

\* x, in the same units, is 1 within the rounding of the arithmetic (one
\* percent)
NearOne(x) ==
  /\ 100 * (x - Scale * Scale) <= Scale * Scale
  /\ 100 * (Scale * Scale - x) <= Scale * Scale

NoTokens(text) == Tokens(text) = <<>>

\* C30, as stated: for a text without tokens embed returns the all-zero
\* vector and performs no division; for a text with at least one token the
\* sum of the squares of the components it returns is 1.
C30_AsStated ==
  /\ \A t \in Texts :
       IF NoTokens(t)
       THEN /\ embed(t) = ZeroVec(EMBED_DIM)
            /\ normalize_divisions(embed_count(Tokens(t), 1, ZeroVec(EMBED_DIM))) = 0
       ELSE SumSquares(embed(t)) = Scale * Scale
  /\ \A c \in DOMAIN entries_ :
       IF NoTokens(entries_[c].text)
       THEN entries_[c].embedding = ZeroVec(EMBED_DIM)
       ELSE SumSquares(entries_[c].embedding) = Scale * Scale

\* C30, amended: the same with the sum of squares equal to 1 within the
\* rounding of the arithmetic.
C30_Normalised ==
  /\ \A t \in Texts :
       IF NoTokens(t)
       THEN /\ embed(t) = ZeroVec(EMBED_DIM)
            /\ normalize_divisions(embed_count(Tokens(t), 1, ZeroVec(EMBED_DIM))) = 0
       ELSE NearOne(SumSquares(embed(t)))
  /\ \A c \in DOMAIN entries_ :
       IF NoTokens(entries_[c].text)
       THEN entries_[c].embedding = ZeroVec(EMBED_DIM)
       ELSE NearOne(SumSquares(entries_[c].embedding))

C30_Witness ==
  /\ "c3" \in DOMAIN entries_ /\ "c1" \in DOMAIN entries_
  /\ entries_["c3"].text = T_none
  /\ entries_["c3"].embedding = ZeroVec(EMBED_DIM)
  /\ entries_["c1"].text = T_ab_c
  /\ SumSquares(entries_["c1"].embedding) # Scale * Scale
  /\ NearOne(SumSquares(entries_["c1"].embedding))


-----------------------------------------------------------------------------
(* The self-similarity round trip, checked under SpecDefaults *)

\* the score x is 1.0 within the rounding of the arithmetic (one percent)
ScoreIsOne(x) ==
  /\ 100 * (x - Scale) <= Scale
  /\ 100 * (Scale - x) <= Scale

\* the store holds one chunk, whose text has a token, and the request that
\* was handled is an unfiltered search with that text as query and top_k = 1
RoundTripDone ==
  /\ op.kind = "request"
  /\ WellFormedSearch(op.request)
  /\ RequestFilter(op.request) = ""
  /\ contains(op.request, "top_k") /\ op.request["top_k"].n = 1
  /\ Cardinality(DOMAIN entries_) = 1
  /\ \A c \in DOMAIN entries_ :
       /\ entries_[c].text = op.request["query"].s
       /\ Tokens(entries_[c].text) # <<>>

\* C31: when the store holds exactly one chunk, stored with a text T that
\* has at least one token, an unfiltered search with query T and top_k = 1
\* returns exactly that chunk_id, with a score of 1.0 within tolerance.
C31_SelfSimilarity ==
  RoundTripDone
    => /\ response.status = "ok"
       /\ Len(response.results) = 1
       /\ response.results[1].chunk_id \in DOMAIN entries_
       /\ response.results[1].text = op.request["query"].s
       /\ ScoreIsOne(response.results[1].score)

\* the round trip of "Ab c", a text of two tokens, has been made
C31_Witness ==
  /\ RoundTripDone
  /\ op.request["query"].s = T_ab_c
  /\ Len(response.results) = 1
  /\ response.results[1].chunk_id = "c2"


-----------------------------------------------------------------------------
(* write_message and read_message at the two ends of one connection *)

\* the sizes of the messages handed to write_message
PayloadSizes ==
  {1, 2, 255, 256, 65536, 10 * 1024 * 1024, 10 * 1024 * 1024 + 1}

\* the most short writes of a payload a run of the model follows
MaxPartialWrites == 1

\* faulty variant: the header written as little-endian
encode_length_le(length) ==
  <<length % 256, (length \div 256) % 256, (length \div 65536) % 256,
    (length \div 16777216) % 256>>

\* len_buf of write_message: (length >> 24) & 0xFF, (length >> 16) & 0xFF,
\* (length >> 8) & 0xFF, length & 0xFF
encode_length(length) ==
  <<(length \div 16777216) % 256, (length \div 65536) % 256,
    (length \div 256) % 256, length % 256>>

\* n bytes in a row: the bytes src, src + 1, ... of the message, at the
\* offsets dst, dst + 1, ... of the body of the stream or of the buffer
Seg(dst, src, n) == [dst |-> dst, src |-> src, n |-> n]

\* bytes put behind those already there
append_bytes(segs, seg) ==
  IF /\ segs # <<>>
     /\ segs[Len(segs)].dst + segs[Len(segs)].n = seg.dst
     /\ segs[Len(segs)].src + segs[Len(segs)].n = seg.src
  THEN [segs EXCEPT ![Len(segs)].n = @ + seg.n]
  ELSE Append(segs, seg)

\* the bytes in flight after n of the first run have been read
drop_bytes(segs, n) ==
  IF n = segs[1].n THEN Tail(segs)
  ELSE [segs EXCEPT ![1] = Seg(@.dst + n, @.src + n, @.n - n)]

\* what write returns for the payload when it takes data: all that is left,
\* or a part of it
write_sizes(total, size, partial) ==
  {size - total}
    \cup (IF partial < MaxPartialWrites /\ size - total > 1
          THEN {(size - total) \div 2} ELSE {})

\* what read returns when want bytes are asked for and avail are there: as
\* many as it can give, or fewer
stream_reads(want, avail, partial) ==
  {Min(want, avail)}
    \cup (IF partial < MaxPartialReads /\ Min(want, avail) > 1
          THEN {Min(want, avail) \div 2} ELSE {})

\* the message write_message is called with: msg.size() bytes
Message(size) == [kind |-> "write_message", size |-> size]

\* read_message about to read the header
ReadStart ==
  [phase |-> "length", total |-> 0, length |-> 0, partial |-> 0, error |-> "",
   errno |-> "", after |-> "", len_buf |-> <<>>, payload |-> <<>>]

\* what the steps of the two functions leave alone
framing_rest ==
  <<entries_, doc_index_, hash_, results, response, ever_stored, pc,
    shutdown_requested, listen_fd_, exit_code, conns, client_fd, frame,
    writes, acked, sockets, startup>>

\* a connection is open, one end calls write_message with a message, the
\* other read_message
InitFraming ==
  /\ entries_ = <<>>
  /\ doc_index_ = <<>>
  /\ hash_ = HashPlain
  /\ op \in {Message(size) : size \in PayloadSizes}
  /\ results = <<>>
  /\ response = NoResponse
  /\ ever_stored = {}
  /\ pc = "Handling"
  /\ shutdown_requested = FALSE
  /\ listen_fd_ = 3
  /\ exit_code = "none"
  /\ conns = {4}
  /\ client_fd = 4
  /\ frame = NoFrame
  /\ writes = <<>>
  /\ acked = <<>>
  /\ sockets = {3}
  /\ startup = [argv |-> <<>>, setup |-> "ok"]
  /\ rd = ReadStart
  /\ wr = [phase |-> "length", total |-> 0, partial |-> 0]
  /\ wire = NoWire

\* one write of the header loop takes n bytes
WriteHeader(n) ==
  /\ wr.phase = "length"
  /\ n \in 1..(4 - wr.total)
  /\ wire' = [wire EXCEPT
                !.hdr = @ \o SubSeq(encode_length(op.size),
                                    wr.total + 1, wr.total + n)]
  /\ wr' = IF wr.total + n < 4 THEN [wr EXCEPT !.total = @ + n]
           ELSE IF op.size = 0 THEN [wr EXCEPT !.phase = "done", !.total = 0]
           ELSE [wr EXCEPT !.phase = "payload", !.total = 0]
  /\ UNCHANGED <<op, rd, framing_rest>>

\* one write of the payload loop takes n bytes, from msg.data() + total
WritePayload ==
  /\ wr.phase = "payload"
  /\ \E n \in write_sizes(wr.total, op.size, wr.partial) :
       /\ wire' = [wire EXCEPT
                     !.body = append_bytes(@, Seg(wr.total, wr.total, n))]
       /\ wr' = IF wr.total + n < op.size
                THEN [wr EXCEPT !.total = @ + n, !.partial = @ + 1]
                ELSE [wr EXCEPT !.phase = "done", !.total = op.size]
  /\ UNCHANGED <<op, rd, framing_rest>>

\* a write returns n <= 0: write_message throws, and the end that wrote
\* closes the connection
WriteFail ==
  /\ wr.phase \in {"length", "payload"}
  /\ wr' = [wr EXCEPT !.phase = "failed"]
  /\ wire' = [wire EXCEPT !.closed = TRUE]
  /\ UNCHANGED <<op, rd, framing_rest>>

\* one read of the header loop returns n bytes, stored at len_buf + total;
\* with the fourth the length is decoded and tested
ReadHeader(n) ==
  /\ rd.phase = "length"
  /\ n \in 1..Min(4 - rd.total, Len(wire.hdr))
  /\ wire' = [wire EXCEPT !.hdr = SubSeq(@, n + 1, Len(@))]
  /\ LET len_buf == rd.len_buf \o SubSeq(wire.hdr, 1, n)
     IN rd' = IF rd.total + n < 4
              THEN [rd EXCEPT !.total = @ + n, !.len_buf = len_buf]
              ELSE IF invalid_length(decode_length(len_buf))
              THEN [rd EXCEPT !.phase = "failed", !.total = 4,
                              !.len_buf = len_buf,
                              !.error = "Invalid message length"]
              ELSE [rd EXCEPT !.phase = "payload", !.total = 0,
                              !.len_buf = len_buf,
                              !.length = length_value(decode_length(len_buf))]
  /\ UNCHANGED <<op, wr, framing_rest>>

\* one read of the payload loop returns n bytes, stored at &payload[total];
\* with the last one read_message returns the payload
ReadBody ==
  /\ rd.phase = "payload"
  /\ wire.body # <<>>
  /\ \E n \in stream_reads(rd.length - rd.total, wire.body[1].n, rd.partial) :
       /\ wire' = [wire EXCEPT !.body = drop_bytes(@, n)]
       /\ rd' = [rd EXCEPT
                   !.payload = append_bytes(@, Seg(rd.total, wire.body[1].src, n)),
                   !.total = @ + n,
                   !.partial = IF n < Min(rd.length - rd.total, wire.body[1].n)
                               THEN @ + 1 ELSE @,
                   !.phase = IF rd.total + n < rd.length THEN "payload"
                             ELSE "done"]
  /\ UNCHANGED <<op, wr, framing_rest>>

\* a read returns 0: the other end has closed the connection and every byte
\* it wrote has been read; read_message throws
ReadEof ==
  /\ rd.phase \in {"length", "payload"}
  /\ wire.closed /\ wire.hdr = <<>> /\ wire.body = <<>>
  /\ rd' = [rd EXCEPT
              !.error = IF rd.phase = "length"
                        THEN "Failed to read message length"
                        ELSE "Failed to read message payload",
              !.phase = "failed"]
  /\ UNCHANGED <<op, wr, wire, framing_rest>>

NextFraming ==
  \/ \E n \in 1..4 : WriteHeader(n)
  \/ WritePayload
  \/ WriteFail
  \/ \E n \in 1..4 : ReadHeader(n)
  \/ ReadBody
  \/ ReadEof

SpecFraming == InitFraming /\ [][NextFraming]_vars

-----------------------------------------------------------------------------
(* The framing round trip, checked under SpecFraming *)

\* a payload of 1 to 10 MiB bytes
ValidSize(size) == 1 <= size /\ size <= 10485760

\* C32: for a payload of 1 to 10 MiB bytes, what read_message returns from
\* the frame write_message produces is that payload, however the bytes are
\* split into writes and reads: read_message returns only with exactly the
\* declared number of bytes, which is the size of the payload, it has
\* returned once the whole frame has been read, and it fails only when the
\* frame was not written to its end.
C32_FramingRoundTrip ==
  /\ rd.phase = "done"
       => /\ ValidSize(op.size)
          /\ rd.length = op.size /\ rd.total = rd.length
          /\ rd.payload = <<Seg(0, 0, op.size)>>
  /\ rd.phase = "payload" => (rd.length = op.size /\ rd.total < rd.length)
  /\ (ValidSize(op.size) /\ wr.phase = "done"
        /\ wire.hdr = <<>> /\ wire.body = <<>>)
       => rd.phase = "done"
  /\ (ValidSize(op.size) /\ rd.phase = "failed") => wr.phase = "failed"

\* a payload of 10 MiB, written in two writes and read with a read that
\* returned less than was there, has been returned
C32_Witness ==
  /\ op.size = 10 * 1024 * 1024
  /\ wr.phase = "done" /\ wr.partial = 1
  /\ rd.phase = "done" /\ rd.partial = 1
  /\ rd.payload = <<Seg(0, 0, op.size)>>


-----------------------------------------------------------------------------
(* The outcome of the process, checked under SpecServer *)

\* C33: the process terminates with outcome zero only if the shutdown flag
\* was set: after a successful startup the accept loop is left only because
\* its condition found the flag set.
C33_ZeroOnlyAfterFlag ==
  /\ (pc = "Stopped" /\ exit_code = "0") => shutdown_requested
  /\ pc = "ShuttingDown" => shutdown_requested

\* the part of C33 that holds: the loop condition itself ends the loop only
\* with the flag set, and a process that stopped with outcome zero had
\* started successfully and left the loop by its condition or by `break`
C33_LoopCondition ==
  [][/\ (pc \in {"Listening", "Handling"} /\ pc' = "ShuttingDown")
          => shutdown_requested'
     /\ (pc = "Accepting" /\ pc' = "ShuttingDown" /\ ~shutdown_requested)
          => SelectBreak
     /\ exit_code' = "0" => (pc = "ShuttingDown" /\ startup.setup = "ok")]_vars

====
